---------------------------- MODULE Spec2Model ----------------------------
(***************************************************************************)
(* Half-edge graph, ear-clipping triangulation and flip cleanup of the     *)
(* geometry-core topology package (topology/Triangulation.js and the       *)
(* HalfEdge / HalfEdgeGraph primitives it calls).                          *)
(*                                                                         *)
(* A graph is a record of sequences indexed by half-edge number 1..n (the  *)
(* position of the half-edge in allHalfEdges); 0 stands for undefined.     *)
(* Coordinates are integers; z is 0 for every XAndY input                  *)
(* (interiorEdgeSplit) and is only ever copied, so it is not carried.      *)
(***************************************************************************)
EXTENDS Integers, Sequences, FiniteSets, TLC

VARIABLES
  graph,            \* Triangulator._returnGraph
  loops,            \* the coordinate loops handed to the entry point
  pc,               \* the routine in progress
  ear, stop, pass,  \* earcutLinked: ear, stop, pass
  filterP, filterEnd, \* filterPoints: p, end
  ret,              \* value returned by the routine that last finished
  stack,            \* what the callers still have to do, innermost first
  queue, outerNode, \* spliceLeftMostNodesOfHoles: the holes left, outerNode
  nodeIndex, foundNonVisited, \* cleanupTriangulation: i + 1, foundNonVisited
  returnGraph,      \* two runs: the graph the static _returnGraph refers to
  heap,             \* two runs: every half-edge of every graph
  allHalfEdges,     \* two runs: allHalfEdges of each graph
  runs,             \* two runs: the locals of each run
  components,       \* collectConnectedComponents: parityMask, value returned
  hash              \* earcutLinked: minX, minY, size; zOrder, prevZ, nextZ

\* What the triangulation of one input never touches.
apart == <<returnGraph, heap, allHalfEdges, runs, components>>

ctl == <<loops, pc, ear, stop, pass, filterP, filterEnd, ret, stack, queue,
         outerNode, nodeIndex, foundNonVisited, apart, hash>>

vars == <<graph, ctl>>

(***************************************************************************)
(* Bounds of the primitive-operation specification.                        *)
(***************************************************************************)
MaxEdgePairs == 2

\* The vertex handed to splitEdge.
GraphPoints == {<<2, 1>>}

\* The (A end, B end) coordinate pairs handed to createEdgeXYZXYZ.
GraphEdges == {<<<<0, 0>>, <<1, 0>>>>}

(***************************************************************************)
(* HalfEdge records and the graph container                                *)
(***************************************************************************)
EmptyGraph ==
  [faceSuccessor |-> <<>>, facePredecessor |-> <<>>, edgeMate |-> <<>>,
   x |-> <<>>, y |-> <<>>, i |-> <<>>, mask |-> <<>>, steiner |-> <<>>]

\* No hashing: size undefined, no half-edge with a zOrder or a z link.
NoHash ==
  [size |-> 0, minX |-> 0, minY |-> 0, zOrder |-> <<>>, prevZ |-> <<>>,
   nextZ |-> <<>>]

Nodes(G) == 1..Len(G.faceSuccessor)

\* createEdgeXYZXYZ with each new half-edge a face loop of itself.
CreateEdgeSelfLoops(G, xA, yA, iA, xB, yB, iB) ==
  LET a == Len(G.faceSuccessor) + 1
      b == a + 1
  IN [faceSuccessor   |-> G.faceSuccessor \o <<a, b>>,
      facePredecessor |-> G.facePredecessor \o <<a, b>>,
      edgeMate        |-> G.edgeMate \o <<b, a>>,
      x    |-> G.x \o <<xA, xB>>,
      y    |-> G.y \o <<yA, yB>>,
      i    |-> G.i \o <<iA, iB>>,
      mask |-> G.mask \o <<{}, {}>>,
      steiner |-> G.steiner \o <<FALSE, FALSE>>]

\* HalfEdge.createHalfEdgePairWithCoordinates: two new half-edges a, b, mated,
\* joined as a two-edge face loop (a.faceSuccessor = b, b.faceSuccessor = a).
\* splitPolygon reads the B side as a2.faceSuccessor and joinNeighborsOfEar as
\* alpha.edgeMate: both name the same half-edge.  Returns the graph; the new
\* A side is Len + 1 and the B side Len + 2.
CreateEdgeXYZXYZ(G, xA, yA, iA, xB, yB, iB) ==
  LET a == Len(G.faceSuccessor) + 1
      b == a + 1
  IN [faceSuccessor   |-> G.faceSuccessor \o <<b, a>>,
      facePredecessor |-> G.facePredecessor \o <<b, a>>,
      edgeMate        |-> G.edgeMate \o <<b, a>>,
      x    |-> G.x \o <<xA, xB>>,
      y    |-> G.y \o <<yA, yB>>,
      i    |-> G.i \o <<iA, iB>>,
      mask |-> G.mask \o <<{}, {}>>,
      steiner |-> G.steiner \o <<FALSE, FALSE>>]

\* pinch that relinks the successor of only one of the two predecessors.
PinchOneSided(G, a, b) ==
  IF a = b THEN G
  ELSE LET predA == G.facePredecessor[a]
           predB == G.facePredecessor[b]
       IN [G EXCEPT !.facePredecessor = [@ EXCEPT ![b] = predA, ![a] = predB],
                    !.faceSuccessor   = [@ EXCEPT ![predA] = b]]

\* pinch that exchanges the face successors of the two nodes instead of
\* their face predecessors.
PinchSuccessors(G, a, b) ==
  IF a = b THEN G
  ELSE LET succA == G.faceSuccessor[a]
           succB == G.faceSuccessor[b]
       IN [G EXCEPT !.faceSuccessor   = [@ EXCEPT ![b] = succA, ![a] = succB],
                    !.facePredecessor = [@ EXCEPT ![succB] = a, ![succA] = b]]

\* HalfEdge.pinch(nodeA, nodeB): exchange the face predecessors of the two
\* nodes (and so the vertex-successor links rooted at them).
Pinch(G, a, b) ==
  IF a = b THEN G
  ELSE LET predA == G.facePredecessor[a]
           predB == G.facePredecessor[b]
       IN [G EXCEPT !.facePredecessor = [@ EXCEPT ![b] = predA, ![a] = predB],
                    !.faceSuccessor   = [@ EXCEPT ![predB] = a, ![predA] = b]]

\* splitEdge that gives the old mate of base its new mate but leaves base
\* pointing at the old one (setEdgeMates(newB, base) dropped), and
\* splitEdge that links newB forward without the back link of its successor
\* (setFaceLinks(newB, vpredA) writing one side only).
SplitEdgeWith(G, base, xA, yA, mateBoth, linkBoth) ==
  LET newA == Len(G.faceSuccessor) + 1
      newB == newA + 1
      nextA  == G.faceSuccessor[base]
      mateA  == G.edgeMate[base]
      vpredA == G.faceSuccessor[mateA]
      fs0 == G.faceSuccessor \o <<nextA, vpredA>>
      fs2 == [fs0 EXCEPT ![base] = newA, ![mateA] = newB]
      fp0 == G.facePredecessor \o <<base, mateA>>
      fp1 == [fp0 EXCEPT ![nextA] = newA]
      fp2 == IF linkBoth THEN [fp1 EXCEPT ![vpredA] = newB] ELSE fp1
      em0 == G.edgeMate \o <<mateA, base>>
      em1 == IF mateBoth THEN [em0 EXCEPT ![mateA] = newA, ![base] = newB]
                         ELSE [em0 EXCEPT ![mateA] = newA]
  IN [faceSuccessor   |-> IF base = 0 THEN G.faceSuccessor \o <<newA, newB>> ELSE fs2,
      facePredecessor |-> IF base = 0 THEN G.facePredecessor \o <<newA, newB>> ELSE fp2,
      edgeMate        |-> IF base = 0 THEN G.edgeMate \o <<newB, newA>> ELSE em1,
      x    |-> G.x \o <<xA, xA>>,
      y    |-> G.y \o <<yA, yA>>,
      i    |-> G.i \o <<0, 0>>,
      mask |-> G.mask \o <<{}, {}>>,
      steiner |-> G.steiner \o <<FALSE, FALSE>>]

SplitEdgeOneSidedMate(G, base, xA, yA) == SplitEdgeWith(G, base, xA, yA, FALSE, TRUE)

SplitEdgeOneSidedLink(G, base, xA, yA) == SplitEdgeWith(G, base, xA, yA, TRUE, FALSE)

\* HalfEdge.splitEdge(base, x, y, z, i = 0): with base undefined (0) a new
\* one-vertex loop (two mated half-edges, each its own face loop); otherwise a
\* new vertex between base and its successor, on both sides of the edge.
SplitEdge(G, base, xA, yA) ==
  LET newA == Len(G.faceSuccessor) + 1
      newB == newA + 1
  IN IF base = 0
     THEN [faceSuccessor   |-> G.faceSuccessor \o <<newA, newB>>,
           facePredecessor |-> G.facePredecessor \o <<newA, newB>>,
           edgeMate        |-> G.edgeMate \o <<newB, newA>>,
           x    |-> G.x \o <<xA, xA>>,
           y    |-> G.y \o <<yA, yA>>,
           i    |-> G.i \o <<0, 0>>,
           mask |-> G.mask \o <<{}, {}>>,
           steiner |-> G.steiner \o <<FALSE, FALSE>>]
     ELSE LET nextA  == G.faceSuccessor[base]
              mateA  == G.edgeMate[base]
              vpredA == G.faceSuccessor[mateA]
              \* setFaceLinks(newA, nextA); setFaceLinks(base, newA);
              \* setFaceLinks(mateA, newB); setFaceLinks(newB, vpredA)
              fs0 == G.faceSuccessor \o <<nextA, vpredA>>
              fs1 == [fs0 EXCEPT ![base] = newA]
              fs2 == [fs1 EXCEPT ![mateA] = newB]
              fp0 == G.facePredecessor \o <<base, mateA>>
              fp1 == [fp0 EXCEPT ![nextA] = newA]
              fp2 == [fp1 EXCEPT ![vpredA] = newB]
              \* setEdgeMates(newA, mateA); setEdgeMates(newB, base)
              em0 == G.edgeMate \o <<mateA, base>>
              em1 == [em0 EXCEPT ![mateA] = newA, ![base] = newB]
          IN [faceSuccessor   |-> fs2,
              facePredecessor |-> fp2,
              edgeMate        |-> em1,
              x    |-> G.x \o <<xA, xA>>,
              y    |-> G.y \o <<yA, yA>>,
              i    |-> G.i \o <<0, 0>>,
              mask |-> G.mask \o <<{}, {}>>,
              steiner |-> G.steiner \o <<FALSE, FALSE>>]

\* HalfEdge.vertexSuccessor: facePredecessor, then edgeMate.
VertexSuccessor(G, h) == G.edgeMate[G.facePredecessor[h]]

\* The first n half-edges met walking next from h: the first half of the
\* walk, then the second half from where the first ends.
RECURSIVE Steps(_, _, _)
\* The walk a taken n steps further.
StepsOnFrom(next, a, n) == a \o Steps(next, next[a[Len(a)]], n)

Steps(next, h, n) ==
  IF n = 0 THEN <<>>
  ELSE IF n = 1 THEN <<h>>
  ELSE StepsOnFrom(next, Steps(next, h, n \div 2), n - n \div 2)

\* The walk T has met a member of seen or one of its own members again.
Repeats(T, seen) ==
  LET met == {T[k] : k \in 1..Len(T)}
  IN Cardinality(met) < Len(T) \/ met \cap seen # {}

\* The walk from h, taken 4 times further at each try until it repeats or
\* is fuel steps long.
RECURSIVE StepsUntilRepeat(_, _, _, _, _)
RepeatsOrFurther(S, next, h, seen, n, fuel) ==
  IF n >= fuel \/ Repeats(S, seen) THEN S
  ELSE StepsUntilRepeat(next, h, seen, 4 * n, fuel)

StepsUntilRepeat(next, h, seen, n, fuel) ==
  RepeatsOrFurther(Steps(next, h, IF n < fuel THEN n ELSE fuel),
                   next, h, seen, n, fuel)

\* The walk from h, taken 4 times further at each try until it comes to a
\* half-edge whose next is first or is fuel steps long.
RECURSIVE StepsUntilBack(_, _, _, _, _)
BackOrFurther(S, next, h, first, n, fuel) ==
  IF n >= fuel \/ \E k \in 1..Len(S) : next[S[k]] = first THEN S
  ELSE StepsUntilBack(next, h, first, 4 * n, fuel)

StepsUntilBack(next, h, first, n, fuel) ==
  BackOrFurther(Steps(next, h, IF n < fuel THEN n ELSE fuel),
                next, h, first, n, fuel)

\* seen with the half-edges of the walk S before its first member of seen.
UpToSeen(S, seen) ==
  LET hits == {k \in 1..Len(S) : S[k] \in seen}
      last == IF hits = {} THEN Len(S)
              ELSE (CHOOSE k \in hits : \A j \in hits : k <= j) - 1
  IN seen \cup {S[k] : k \in 1..last}

\* The half-edges met walking next from h until the walk closes or has taken
\* as many steps as there are half-edges (collectAroundFace /
\* collectAroundVertex).
Walk(next, h, seen, fuel) ==
  UpToSeen(StepsUntilRepeat(next, h, seen, 4, fuel), seen)

FaceLoop(G, h) == Walk(G.faceSuccessor, h, {}, Len(G.faceSuccessor))

VertexSuccessorMap(G) == [k \in Nodes(G) |-> VertexSuccessor(G, k)]

VertexLoop(G, h) == Walk(VertexSuccessorMap(G), h, {}, Len(G.faceSuccessor))

FaceLoops(G) == {FaceLoop(G, h) : h \in Nodes(G)}

VertexLoops(G) ==
  LET vs == VertexSuccessorMap(G)
  IN {Walk(vs, h, {}, Len(G.faceSuccessor)) : h \in Nodes(G)}

(***************************************************************************)
(* Primitive operations applied in any order to one graph                  *)
(***************************************************************************)
\* No triangulation in progress: every local of the engine at its rest value.
Idle(c) ==
  /\ pc = c
  /\ ear = 0 /\ stop = 0 /\ pass = 0
  /\ filterP = 0 /\ filterEnd = 0
  /\ ret = 0 /\ stack = <<>>
  /\ queue = <<>> /\ outerNode = 0
  /\ nodeIndex = 0 /\ foundNonVisited = FALSE
  /\ hash = NoHash

\* No second run and no search: their state at its rest value.
ApartIdle ==
  /\ returnGraph = 0
  /\ heap = EmptyGraph
  /\ allHalfEdges = <<>>
  /\ runs = <<>>
  /\ components = <<>>

InitGraph ==
  /\ graph = EmptyGraph
  /\ loops = <<>>
  /\ Idle("primitives")
  /\ ApartIdle

HasRoom == Len(graph.faceSuccessor) + 2 <= 2 * MaxEdgePairs

DoCreateEdgePair ==
  /\ HasRoom
  /\ \E e \in GraphEdges :
       graph' = CreateEdgeXYZXYZ(graph, e[1][1], e[1][2], 1, e[2][1], e[2][2], 2)
  /\ UNCHANGED ctl

DoSplitEdge ==
  /\ HasRoom
  /\ \E base \in {0} \cup Nodes(graph), p \in GraphPoints :
       graph' = SplitEdge(graph, base, p[1], p[2])
  /\ UNCHANGED ctl

DoPinch ==
  /\ \E a \in Nodes(graph), b \in Nodes(graph) :
       graph' = Pinch(graph, a, b)
  /\ UNCHANGED ctl

NextGraph == DoCreateEdgePair \/ DoSplitEdge \/ DoPinch

SpecGraph == InitGraph /\ [][NextGraph]_vars

(***************************************************************************)
(* Structure of a graph                                                    *)
(***************************************************************************)
\* Every half-edge has a mate, different from itself, whose mate it is, and
\* the half-edges come in pairs.
MateWellFormed(G) ==
  /\ Len(G.edgeMate) = Len(G.faceSuccessor)
  /\ Len(G.faceSuccessor) % 2 = 0
  /\ \A h \in Nodes(G) :
       /\ G.edgeMate[h] \in Nodes(G)
       /\ G.edgeMate[h] # h
       /\ G.edgeMate[G.edgeMate[h]] = h

\* faceSuccessor and facePredecessor are inverse bijections of the half-edges.
LinksInverse(G) ==
  /\ Len(G.facePredecessor) = Len(G.faceSuccessor)
  /\ \A h \in Nodes(G) :
       /\ G.faceSuccessor[h] \in Nodes(G)
       /\ G.facePredecessor[h] \in Nodes(G)
       /\ G.facePredecessor[G.faceSuccessor[h]] = h
       /\ G.faceSuccessor[G.facePredecessor[h]] = h

\* The walk by next from h comes back to h.
ClosedCycle(next, h, n) == \E k \in Walk(next, h, {}, n) : next[k] = h

\* C1: every half-edge h has a mate with mate(mate(h)) = h and mate(h) # h,
\* the number of half-edges is even in every reachable state, and no step
\* lowers it.
C1_MatedPairs ==
  /\ [](MateWellFormed(graph))
  /\ [][Len(graph'.edgeMate) >= Len(graph.edgeMate)]_vars

\* Pairs are allocated as half-edges 2k-1 and 2k, mates of each other; only
\* splitEdge on an existing edge gives a half-edge a mate from another
\* allocation.  The witness is a state after such a split in which a pinch
\* has also rewired a face loop to three or more half-edges.
C1_Witness ==
  /\ Len(graph.edgeMate) >= 4
  /\ \E h \in Nodes(graph) : graph.edgeMate[h] \notin {h - 1, h + 1}
  /\ \E h \in Nodes(graph) : Cardinality(FaceLoop(graph, h)) >= 3

\* C2: from every reachable graph, for every two half-edges a and b,
\* pinch(a, b) applied twice gives back every faceSuccessor and
\* facePredecessor link, hence the same vertex loops and face loops.
C2_PinchTwiceRestores ==
  \A a \in Nodes(graph), b \in Nodes(graph) :
    LET G2 == Pinch(Pinch(graph, a, b), a, b)
    IN /\ G2.faceSuccessor = graph.faceSuccessor
       /\ G2.facePredecessor = graph.facePredecessor
       /\ VertexLoops(G2) = VertexLoops(graph)
       /\ FaceLoops(G2) = FaceLoops(graph)

\* createEdgePair and splitEdge leave every vertex loop with at most two
\* half-edges, so a vertex loop of three is the work of a pinch; in the state
\* reached a pinch of two of its members changes the links and the loops.
C2_Witness ==
  \E a \in Nodes(graph), b \in Nodes(graph) :
    /\ a # b
    /\ b \in VertexLoop(graph, a)
    /\ Cardinality(VertexLoop(graph, a)) >= 3
    /\ Pinch(graph, a, b).faceSuccessor # graph.faceSuccessor
    /\ VertexLoops(Pinch(graph, a, b)) # VertexLoops(graph)

\* C3: for distinct half-edges a and b of any reachable graph: in different
\* vertex loops, pinch(a, b) leaves them in one loop that is the union of the
\* two; in the same vertex loop, it splits that loop into exactly two, a in
\* one and b in the other; every other vertex loop keeps its members.
C3_PinchMergesOrSplits ==
  \A a \in Nodes(graph), b \in Nodes(graph) :
    a # b =>
      LET G1 == Pinch(graph, a, b)
          La == VertexLoop(graph, a)
          Lb == VertexLoop(graph, b)
          others == VertexLoops(graph) \ {La, Lb}
      IN IF La # Lb
         THEN /\ VertexLoop(G1, a) = La \cup Lb
              /\ VertexLoop(G1, b) = La \cup Lb
              /\ VertexLoops(G1) = others \cup {La \cup Lb}
         ELSE /\ VertexLoop(G1, a) # VertexLoop(G1, b)
              /\ VertexLoop(G1, a) \cup VertexLoop(G1, b) = La
              /\ VertexLoop(G1, a) \cap VertexLoop(G1, b) = {}
              /\ VertexLoops(G1) = others \cup {VertexLoop(G1, a), VertexLoop(G1, b)}

\* A state holding a vertex loop that pinches have merged to three or more
\* half-edges (to split again) and a second vertex loop (to merge it with).
C3_Witness ==
  /\ \E L \in VertexLoops(graph) : Cardinality(L) >= 3
  /\ Cardinality(VertexLoops(graph)) >= 2

\* C4: faceSuccessor and facePredecessor are mutually inverse bijections, and
\* every half-edge lies on exactly one closed face cycle and exactly one
\* closed vertex cycle.
C4_LoopsPartition ==
  /\ LinksInverse(graph)
  /\ \A h \in Nodes(graph) :
       /\ ClosedCycle(graph.faceSuccessor, h, Len(graph.faceSuccessor))
       /\ ClosedCycle(VertexSuccessorMap(graph), h, Len(graph.faceSuccessor))
       /\ Cardinality({L \in FaceLoops(graph) : h \in L}) = 1
       /\ Cardinality({L \in VertexLoops(graph) : h \in L}) = 1

\* After creations, a split and pinches: a face cycle of three or more
\* half-edges next to other face cycles.
C4_Witness ==
  /\ \E h \in Nodes(graph) : graph.edgeMate[h] \notin {h - 1, h + 1}
  /\ \E L \in VertexLoops(graph) : Cardinality(L) >= 3
  /\ \E L \in FaceLoops(graph) : Cardinality(L) >= 3
  /\ Cardinality(FaceLoops(graph)) >= 2

(***************************************************************************)
(* Masks (HalfEdgeMask) and face measurements of HalfEdge                  *)
(***************************************************************************)
IsMaskSet(G, h, m) == m \in G.mask[h]

SetMask(G, h, ms) == [G EXCEPT !.mask[h] = @ \cup ms]

ClearMask(G, h, ms) == [G EXCEPT !.mask[h] = @ \ ms]

\* HalfEdge.setMaskAroundFace: set the masks on every half-edge of the face.
SetMaskAroundFace(G, h, ms) ==
  LET L == FaceLoop(G, h)
  IN [G EXCEPT !.mask = [k \in Nodes(G) |-> IF k \in L THEN @[k] \cup ms ELSE @[k]]]

\* HalfEdgeGraph.clearMask: clear the masks on every half-edge of the graph.
ClearMaskInGraph(G, ms) ==
  [G EXCEPT !.mask = [k \in Nodes(G) |-> @[k] \ ms]]

\* The walk S as far as its first half-edge whose next is first.
UpToBack(S, next, first) ==
  LET ends == {k \in 1..Len(S) : next[S[k]] = first}
  IN IF ends = {} THEN S
     ELSE SubSeq(S, 1, CHOOSE k \in ends : \A j \in ends : k <= j)

\* The half-edges of the face of h in face order, h first.
FaceSeqFrom(G, h, first, fuel) ==
  UpToBack(StepsUntilBack(G.faceSuccessor, h, first, 4, fuel), G.faceSuccessor, first)

FaceSeq(G, h) == FaceSeqFrom(G, h, h, Len(G.faceSuccessor))

\* HalfEdge.signedFaceArea, doubled: the sum over the edges of the face of
\* (x0 - x1) * (y0 + y1 - 2 y(h)); positive for a counterclockwise face.
RECURSIVE SumAreaTerms(_, _, _, _, _)
SumAreaTerms(G, nodes, y0, lo, hi) ==
  IF lo > hi THEN 0
  ELSE IF lo = hi
  THEN LET n0 == nodes[lo]
           n1 == G.faceSuccessor[n0]
       IN (G.x[n0] - G.x[n1]) * (G.y[n0] + G.y[n1] - y0 - y0)
  ELSE SumAreaTerms(G, nodes, y0, lo, (lo + hi) \div 2)
       + SumAreaTerms(G, nodes, y0, (lo + hi) \div 2 + 1, hi)

SumAreaOver(G, nodes, y0) == SumAreaTerms(G, nodes, y0, 1, Len(nodes))

SignedFaceArea(G, h) == SumAreaOver(G, FaceSeq(G, h), G.y[h])

(***************************************************************************)
(* Plane predicates of Triangulator                                        *)
(***************************************************************************)
\* signedTriangleArea, doubled (the code only compares the area with 0).
SignedTriangleAreaXY(px, py, qx, qy, rx, ry) ==
  (qy - py) * (rx - qx) - (qx - px) * (ry - qy)

SignedTriangleArea(G, np, nq, nr) ==
  SignedTriangleAreaXY(G.x[np], G.y[np], G.x[nq], G.y[nq], G.x[nr], G.y[nr])

\* equalXAndY: Geometry.isSameCoordinate on x and on y, |d| < 1.0e-6, which
\* on integer coordinates is equality.
EqualXY(x1, y1, x2, y2) == x1 = x2 /\ y1 = y2

EqualXAndY(G, n1, n2) == EqualXY(G.x[n1], G.y[n1], G.x[n2], G.y[n2])

PointInTriangle(ax, ay, bx, by, cx, cy, px, py) ==
  /\ (cx - px) * (ay - py) - (ax - px) * (cy - py) >= 0
  /\ (ax - px) * (by - py) - (bx - px) * (ay - py) >= 0
  /\ (bx - px) * (cy - py) - (cx - px) * (by - py) >= 0

\* intersects(p1, q1, p2, q2)
Intersects(G, p1, q1, p2, q2) ==
  \/ EqualXAndY(G, p1, q1) /\ EqualXAndY(G, p2, q2)
  \/ EqualXAndY(G, p1, q2) /\ EqualXAndY(G, p2, q1)
  \/ /\ (SignedTriangleArea(G, p1, q1, p2) > 0) # (SignedTriangleArea(G, p1, q1, q2) > 0)
     /\ (SignedTriangleArea(G, p2, q2, p1) > 0) # (SignedTriangleArea(G, p2, q2, q1) > 0)

\* locallyInside(a, b)
LocallyInside(G, a, b) ==
  LET pa == G.facePredecessor[a]
      sa == G.faceSuccessor[a]
  IN IF SignedTriangleArea(G, pa, a, sa) < 0
     THEN SignedTriangleArea(G, a, b, sa) >= 0 /\ SignedTriangleArea(G, a, pa, b) >= 0
     ELSE SignedTriangleArea(G, a, b, pa) < 0 \/ SignedTriangleArea(G, a, sa, b) < 0

\* intersectsPolygon(a, b): some edge of the face of a, none of whose ends
\* has the id of a or of b, meets the segment a b.
IntersectsPolygon(G, a, b) ==
  \E q \in FaceLoop(G, a) :
    LET s == G.faceSuccessor[q]
    IN /\ G.i[q] # G.i[a] /\ G.i[s] # G.i[a]
       /\ G.i[q] # G.i[b] /\ G.i[s] # G.i[b]
       /\ Intersects(G, q, s, a, b)

\* middleInside(a, b): the parity of the edges of the face of a that a ray
\* from the middle of a b crosses.  With px = (a.x + b.x) / 2 and
\* py = (a.y + b.y) / 2 every comparison is taken after multiplying by 2 and
\* by the (signed) height of the edge.
MiddleCrossing(G, q, a, b) ==
  LET s   == G.faceSuccessor[q]
      px2 == G.x[a] + G.x[b]
      py2 == G.y[a] + G.y[b]
      dy  == G.y[s] - G.y[q]
      lhs == (px2 - 2 * G.x[q]) * dy
      rhs == (G.x[s] - G.x[q]) * (py2 - 2 * G.y[q])
  IN /\ (2 * G.y[q] > py2) # (2 * G.y[s] > py2)
     /\ dy # 0
     /\ IF dy > 0 THEN lhs < rhs ELSE lhs > rhs

MiddleInside(G, a, b) ==
  Cardinality({q \in FaceLoop(G, a) : MiddleCrossing(G, q, a, b)}) % 2 = 1

\* isValidDiagonal(a, b)
IsValidDiagonal(G, a, b) ==
  /\ G.i[G.faceSuccessor[a]] # G.i[b]
  /\ G.i[G.facePredecessor[a]] # G.i[b]
  /\ ~IntersectsPolygon(G, a, b)
  /\ LocallyInside(G, a, b)
  /\ LocallyInside(G, b, a)
  /\ MiddleInside(G, a, b)

(***************************************************************************)
(* Face-loop construction                                                  *)
(* A routine that changes the graph and returns a half-edge is an operator *)
(* giving a record [graph, node]; node 0 is undefined.                     *)
(***************************************************************************)
\* interiorEdgeSplit(graph, baseNode, xy)
InteriorEdgeSplit(G, baseNode, xy) ==
  IF baseNode = 0
  THEN [graph |-> SplitEdge(G, 0, xy[1], xy[2]), node |-> Len(G.faceSuccessor) + 1]
  ELSE IF EqualXY(G.x[baseNode], G.y[baseNode], xy[1], xy[2])
  THEN [graph |-> G, node |-> baseNode]
  ELSE IF EqualXY(G.x[G.faceSuccessor[baseNode]], G.y[G.faceSuccessor[baseNode]], xy[1], xy[2])
  THEN [graph |-> G, node |-> baseNode]
  ELSE [graph |-> SplitEdge(G, baseNode, xy[1], xy[2]), node |-> Len(G.faceSuccessor) + 1]

\* directCreateFaceLoopFromXAndYArray(graph, data), from baseNode on.
\* The loop over data[lo..hi] is modelled by halves: the points of the first
\* half, then those of the second on the graph the first half leaves.  The
\* first half always leaves a base node (the test makes its result known
\* before the second half is begun).
RECURSIVE DirectCreateFaceLoopOver(_, _, _, _, _)
DirectCreateFaceLoopOver(G, data, baseNode, lo, hi) ==
  IF lo > hi THEN [graph |-> G, node |-> baseNode]
  ELSE IF lo = hi THEN InteriorEdgeSplit(G, baseNode, data[lo])
  ELSE LET r == DirectCreateFaceLoopOver(G, data, baseNode, lo, (lo + hi) \div 2)
       IN IF r.node = 0 THEN r
          ELSE DirectCreateFaceLoopOver(r.graph, data, r.node,
                                        (lo + hi) \div 2 + 1, hi)

DirectCreateFaceLoopFromXAndYArray(G, data, baseNode) ==
  DirectCreateFaceLoopOver(G, data, baseNode, 1, Len(data))

\* assignMasksToNewFaceLoop that returns the side it was given, whatever
\* its area.
AssignMasksToGivenSide(G, base0, returnPositiveAreaLoop, markExterior) ==
  IF base0 = 0 THEN [graph |-> G, node |-> 0]
  ELSE LET base == G.faceSuccessor[base0]
           mate == G.edgeMate[base]
           G1 == SetMaskAroundFace(G, base, {"BOUNDARY", "PRIMARY_EDGE"})
           G2 == SetMaskAroundFace(G1, mate, {"BOUNDARY", "PRIMARY_EDGE"})
           otherNode == VertexSuccessor(G2, base)
           G3 == IF markExterior THEN SetMaskAroundFace(G2, otherNode, {"EXTERIOR"}) ELSE G2
       IN [graph |-> G3, node |-> base]

\* assignMasksToNewFaceLoop(_graph, base, returnPositiveAreaLoop, markExterior)
AssignMasksToNewFaceLoop(G, base0, returnPositiveAreaLoop, markExterior) ==
  IF base0 = 0 THEN [graph |-> G, node |-> 0]
  ELSE LET base == G.faceSuccessor[base0]
           area == SignedFaceArea(G, base)
           mate == G.edgeMate[base]
           G1 == SetMaskAroundFace(G, base, {"BOUNDARY", "PRIMARY_EDGE"})
           G2 == SetMaskAroundFace(G1, mate, {"BOUNDARY", "PRIMARY_EDGE"})
           preferredNode == IF returnPositiveAreaLoop = (area < 0) THEN mate ELSE base
           otherNode == VertexSuccessor(G2, preferredNode)
           G3 == IF markExterior THEN SetMaskAroundFace(G2, otherNode, {"EXTERIOR"}) ELSE G2
       IN [graph |-> G3, node |-> preferredNode]

\* createFaceLoopFromXAndYArray(data, returnPositiveAreaLoop, markExterior)
CreateFaceLoopFromXAndYArray(G, data, returnPositiveAreaLoop, markExterior) ==
  LET r == DirectCreateFaceLoopFromXAndYArray(G, data, 0)
  IN AssignMasksToNewFaceLoop(r.graph, r.node, returnPositiveAreaLoop, markExterior)

(***************************************************************************)
(* Cutting and splitting                                                   *)
(***************************************************************************)
\* joinNeighborsOfEar with the two new half-edges pinched at the wrong ends
\* (alpha at the successor of the ear, beta at its predecessor).
JoinNeighborsOfEarCrossed(G, e) ==
  LET pred == G.facePredecessor[e]
      succ == G.faceSuccessor[e]
      alpha == Len(G.faceSuccessor) + 1
      G1 == CreateEdgeXYZXYZ(G, G.x[pred], G.y[pred], G.i[pred],
                                G.x[succ], G.y[succ], G.i[succ])
      G2 == Pinch(G1, G1.faceSuccessor[e], alpha)
      G3 == Pinch(G2, G2.facePredecessor[e], G1.edgeMate[alpha])
  IN SetMaskAroundFace(G3, e, {"TRIANGULATED_NODE_MASK"})

\* joinNeighborsOfEar that marks the face left behind instead of the face of
\* the ear.
JoinNeighborsOfEarMarksRest(G, e) ==
  LET pred == G.facePredecessor[e]
      succ == G.faceSuccessor[e]
      alpha == Len(G.faceSuccessor) + 1
      G1 == CreateEdgeXYZXYZ(G, G.x[pred], G.y[pred], G.i[pred],
                                G.x[succ], G.y[succ], G.i[succ])
      beta == G1.edgeMate[alpha]
      G2 == Pinch(G1, G1.faceSuccessor[e], beta)
      G3 == Pinch(G2, G2.facePredecessor[e], alpha)
  IN SetMaskAroundFace(G3, alpha, {"TRIANGULATED_NODE_MASK"})

\* joinNeighborsOfEar drawing the diagonal from the ear itself instead of
\* from its predecessor.
JoinNeighborsOfEarFromEar(G, e) ==
  LET succ == G.faceSuccessor[e]
      alpha == Len(G.faceSuccessor) + 1
      G1 == CreateEdgeXYZXYZ(G, G.x[e], G.y[e], G.i[e], G.x[succ], G.y[succ], G.i[succ])
      beta == G1.edgeMate[alpha]
      G2 == Pinch(G1, G1.faceSuccessor[e], beta)
      G3 == Pinch(G2, G2.facePredecessor[e], alpha)
  IN SetMaskAroundFace(G3, e, {"TRIANGULATED_NODE_MASK"})

\* joinNeighborsOfEar(ear): a new edge from the predecessor of the ear to its
\* successor; beta closes the triangle of the ear, alpha takes the place of
\* the ear in the loop that remains; the triangle is marked.  (The lines on
\* prevZ and nextZ are UnlinkZ.)
JoinNeighborsOfEar(G, e) ==
  LET pred == G.facePredecessor[e]
      succ == G.faceSuccessor[e]
      alpha == Len(G.faceSuccessor) + 1
      G1 == CreateEdgeXYZXYZ(G, G.x[pred], G.y[pred], G.i[pred],
                                G.x[succ], G.y[succ], G.i[succ])
      beta == G1.edgeMate[alpha]
      G2 == Pinch(G1, G1.faceSuccessor[e], beta)
      G3 == Pinch(G2, G2.facePredecessor[e], alpha)
  IN SetMaskAroundFace(G3, e, {"TRIANGULATED_NODE_MASK"})

\* splitPolygon without its second pinch: the new edge hangs at a only.
SplitPolygonPinchedAtA(G, a, b) ==
  LET a2 == Len(G.faceSuccessor) + 1
      G1 == CreateEdgeXYZXYZ(G, G.x[a], G.y[a], G.i[a], G.x[b], G.y[b], G.i[b])
  IN [graph |-> Pinch(G1, a, a2), node |-> a2]

\* splitPolygon(a, b): the new half-edge a2 is Len + 1.
SplitPolygon(G, a, b) ==
  LET a2 == Len(G.faceSuccessor) + 1
      G1 == CreateEdgeXYZXYZ(G, G.x[a], G.y[a], G.i[a], G.x[b], G.y[b], G.i[b])
      b2 == G1.faceSuccessor[a2]
      G2 == Pinch(G1, a, a2)
  IN [graph |-> Pinch(G2, b, b2), node |-> a2]

\* isEar that accepts every convex corner, whatever lies inside it.
IsEarConvexOnly(G, e) ==
  SignedTriangleArea(G, G.facePredecessor[e], e, G.faceSuccessor[e]) < 0

\* isEar(ear): the corner is convex and no other vertex of the loop that is
\* reflex or straight lies in the triangle (border included).
IsEar(G, e) ==
  LET a == G.facePredecessor[e]
      c == G.faceSuccessor[e]
      \* p runs from ear.faceSuccessor.faceSuccessor up to ear.facePredecessor
      between == FaceLoop(G, e) \ {a, e, c}
  IN /\ SignedTriangleArea(G, a, e, c) < 0
     /\ \A q \in between :
          ~ /\ PointInTriangle(G.x[a], G.y[a], G.x[e], G.y[e], G.x[c], G.y[c],
                               G.x[q], G.y[q])
            /\ SignedTriangleArea(G, G.facePredecessor[q], q, G.faceSuccessor[q]) >= 0

\* The test of filterPoints on p: a duplicate of its successor or collinear
\* with its neighbours, and not a steiner point.
IsRemovable(G, q) ==
  /\ ~G.steiner[q]
  /\ \/ EqualXAndY(G, q, G.faceSuccessor[q])
     \/ SignedTriangleArea(G, G.facePredecessor[q], q, G.faceSuccessor[q]) = 0

\* cureLocalIntersections(start), from p on; fuel bounds the walk.
RECURSIVE CureLocalIntersections(_, _, _, _)
CureLocalIntersections(G, q, start, fuel) ==
  LET a == G.facePredecessor[q]
      b == G.faceSuccessor[G.faceSuccessor[q]]
      cut == /\ ~EqualXAndY(G, a, b)
             /\ Intersects(G, a, q, G.faceSuccessor[q], b)
             /\ LocallyInside(G, a, b)
             /\ LocallyInside(G, b, a)
      G1 == JoinNeighborsOfEar(G, q)
      G2 == IF cut THEN JoinNeighborsOfEar(G1, G1.faceSuccessor[q]) ELSE G
      q2 == IF cut THEN b ELSE q
      start2 == IF cut THEN b ELSE start
      q3 == G2.faceSuccessor[q2]
      \* the half-edges handed to joinNeighborsOfEar at this step
      removed == IF cut THEN <<q, G1.faceSuccessor[q]>> ELSE <<>>
  IN IF q3 = start2 \/ fuel = 0
     THEN [graph |-> G2, node |-> q3, finished |-> (q3 = start2),
           removed |-> removed]
     ELSE [CureLocalIntersections(G2, q3, start2, fuel - 1) EXCEPT
             !.removed = removed \o @]

\* The search of splitEarcut: the first pair (a, b), a in loop order from
\* start and b from a.faceSuccessor.faceSuccessor up to a.facePredecessor,
\* with different ids and a valid diagonal; <<>> when there is none.
DiagonalsAt(G, a) ==
  LET order == FaceSeq(G, G.faceSuccessor[G.faceSuccessor[a]])
      upTo == CHOOSE n \in 0..Len(order) :
                /\ \A k \in 1..n : order[k] # G.facePredecessor[a]
                /\ n < Len(order) => order[n + 1] = G.facePredecessor[a]
  IN SelectSeq(SubSeq(order, 1, upTo),
               LAMBDA b : G.i[a] # G.i[b] /\ IsValidDiagonal(G, a, b))

RECURSIVE FirstDiagonal(_, _)
FirstDiagonal(G, as) ==
  IF as = <<>> THEN <<>>
  ELSE LET bs == DiagonalsAt(G, Head(as))
       IN IF bs # <<>> THEN <<Head(as), Head(bs)>> ELSE FirstDiagonal(G, Tail(as))

FindDiagonal(G, start) == FirstDiagonal(G, FaceSeq(G, start))

(***************************************************************************)
(* Holes                                                                   *)
(***************************************************************************)
\* getLeftmost(start): the first half-edge of the loop, from start on, that
\* no other is strictly to the left of.
RECURSIVE LeftmostOf(_, _, _)
LeftmostOf(G, nodes, leftmost) ==
  IF nodes = <<>> THEN leftmost
  ELSE LeftmostOf(G, Tail(nodes),
                  IF G.x[Head(nodes)] < G.x[leftmost] THEN Head(nodes) ELSE leftmost)

GetLeftmost(G, start) == LeftmostOf(G, FaceSeq(G, start), start)

\* leftMostHoleLoopNode.sort(compareX): a stable sort by x.
RECURSIVE InsertByX(_, _, _)
InsertByX(G, sorted, h) ==
  IF sorted = <<>> THEN <<h>>
  ELSE IF G.x[h] < G.x[Head(sorted)] THEN <<h>> \o sorted
  ELSE <<Head(sorted)>> \o InsertByX(G, Tail(sorted), h)

RECURSIVE SortByX(_, _, _)
SortByX(G, nodes, sorted) ==
  IF nodes = <<>> THEN sorted
  ELSE SortByX(G, Tail(nodes), InsertByX(G, sorted, Head(nodes)))

\* The first loop of findHoleBridge, from p on.  The crossing abscissa
\* x = p.x + (hy - p.y) * (p.faceSuccessor.x - p.x) / (p.faceSuccessor.y - p.y)
\* is kept as the fraction xn / xd with xd > 0 (the test before it forces
\* p.faceSuccessor.y < p.y), and qx as qn / qd; m = 0 stands for m undefined
\* and qx = -Infinity.  found is the half-edge of an early return.
RECURSIVE BridgeSweep(_, _, _, _, _, _, _, _)
BridgeSweep(G, hx, hy, outer, q, m, qn, qd) ==
  LET s  == G.faceSuccessor[q]
      dy == G.y[s] - G.y[q]
      crossed == hy <= G.y[q] /\ hy >= G.y[s] /\ dy # 0
      xn == 0 - (G.x[q] * dy + (hy - G.y[q]) * (G.x[s] - G.x[q]))
      xd == 0 - dy
      nearer == crossed /\ xn <= hx * xd /\ (m = 0 \/ xn * qd > qn * xd)
      atHole == nearer /\ xn = hx * xd
      m2  == IF nearer THEN (IF G.x[q] < G.x[s] THEN q ELSE s) ELSE m
      qn2 == IF nearer THEN xn ELSE qn
      qd2 == IF nearer THEN xd ELSE qd
  IN IF atHole /\ hy = G.y[q] THEN [found |-> q, m |-> 0, qn |-> qn2, qd |-> qd2]
     ELSE IF atHole /\ hy = G.y[s] THEN [found |-> s, m |-> 0, qn |-> qn2, qd |-> qd2]
     ELSE IF s = outer THEN [found |-> 0, m |-> m2, qn |-> qn2, qd |-> qd2]
     ELSE BridgeSweep(G, hx, hy, outer, s, m2, qn2, qd2)

\* The second loop of findHoleBridge, over the half-edges left to visit.
\* tan = |hy - p.y| / (hx - p.x) is kept as tn / td with td > 0 and tanMin as
\* tanN / tanD, tanD = 0 standing for Infinity; the x arguments of
\* pointInTriangle are all multiplied by qd, which keeps the three signs.
RECURSIVE BridgeScan(_, _, _, _, _, _, _, _, _, _)
BridgeScan(G, hole, nodes, m, mx, my, qn, qd, tanN, tanD) ==
  IF nodes = <<>> THEN m
  ELSE LET q  == Head(nodes)
           hx == G.x[hole]
           hy == G.y[hole]
           inside ==
             /\ hx >= G.x[q] /\ G.x[q] >= mx /\ hx # G.x[q]
             /\ PointInTriangle(IF hy < my THEN hx * qd ELSE qn, hy,
                                mx * qd, my,
                                IF hy < my THEN qn ELSE hx * qd, hy,
                                G.x[q] * qd, G.y[q])
           tn == IF hy >= G.y[q] THEN hy - G.y[q] ELSE G.y[q] - hy
           td == hx - G.x[q]
           smaller == tanD = 0 \/ tn * tanD < tanN * td
           tie     == tanD # 0 /\ tn * tanD = tanN * td /\ G.x[q] > G.x[m]
           take == inside /\ (smaller \/ tie) /\ LocallyInside(G, q, hole)
       IN IF take
          THEN BridgeScan(G, hole, Tail(nodes), q, mx, my, qn, qd, tn, td)
          ELSE BridgeScan(G, hole, Tail(nodes), m, mx, my, qn, qd, tanN, tanD)

\* findHoleBridge(hole, outerNode)
FindHoleBridge(G, hole, outer) ==
  IF outer = 0 THEN 0
  ELSE LET r == BridgeSweep(G, G.x[hole], G.y[hole], outer, outer, 0, 0, 1)
       IN IF r.found # 0 THEN r.found
          ELSE IF r.m = 0 THEN 0
          ELSE IF G.x[hole] * r.qd = r.qn THEN G.facePredecessor[r.m]
          ELSE BridgeScan(G, hole, Tail(FaceSeq(G, r.m)), r.m,
                          G.x[r.m], G.y[r.m], r.qn, r.qd, 0, 0)

\* The loop of constructAndSpliceHoles over loops[1..]: each hole loop is
\* built, a one-vertex loop is made a steiner point, and the leftmost
\* half-edge of the loop is pushed on the queue.  A hole without points
\* gives list = undefined, and getLeftmost(undefined) reads undefined.x: a
\* TypeError is thrown, with the loops built so far in the graph.
RECURSIVE ConstructHoles(_, _, _)
ConstructHoles(G, holes, found) ==
  IF holes = <<>> THEN [graph |-> G, queue |-> found, threw |-> FALSE]
  ELSE LET r == CreateFaceLoopFromXAndYArray(G, Head(holes), FALSE, TRUE)
           list == r.node
           G1 == IF list # 0 /\ list = r.graph.faceSuccessor[list]
                 THEN [r.graph EXCEPT !.steiner[list] = TRUE]
                 ELSE r.graph
       IN IF list = 0
          THEN [graph |-> r.graph, queue |-> found, threw |-> TRUE]
          ELSE ConstructHoles(G1, Tail(holes),
                              Append(found, GetLeftmost(G1, list)))

(***************************************************************************)
(* Flip cleanup                                                            *)
(***************************************************************************)
\* Geometry.tripleProduct
TripleProduct(ux, uy, uz, vx, vy, vz, wx, wy, wz) ==
  ux * (vy * wz - vz * wy) + uy * (vz * wx - vx * wz) + uz * (vx * wy - vy * wx)

\* computeInCircleDeterminant(nodeA) is undefined unless the faces on both
\* sides of the edge are triangles.
InCircleDefined(G, nodeA) ==
  LET nodeA2 == G.faceSuccessor[G.faceSuccessor[nodeA]]
      nodeB  == G.edgeMate[nodeA]
      nodeB2 == G.faceSuccessor[G.faceSuccessor[nodeB]]
  IN G.faceSuccessor[nodeA2] = nodeA /\ G.faceSuccessor[nodeB2] = nodeB

ComputeInCircleDeterminant(G, nodeA) ==
  LET nodeA1 == G.faceSuccessor[nodeA]
      nodeA2 == G.faceSuccessor[nodeA1]
      nodeB  == G.edgeMate[nodeA]
      nodeB2 == G.faceSuccessor[G.faceSuccessor[nodeB]]
      ux == G.x[nodeA1] - G.x[nodeA]
      uy == G.y[nodeA1] - G.y[nodeA]
      vx == G.x[nodeA2] - G.x[nodeA]
      vy == G.y[nodeA2] - G.y[nodeA]
      wx == G.x[nodeB2] - G.x[nodeA]
      wy == G.y[nodeB2] - G.y[nodeA]
  IN TripleProduct(wx, wy, wx * wx + wy * wy,
                   vx, vy, vx * vx + vy * vy,
                   ux, uy, ux * ux + uy * uy)

\* flipTriangles without the move of e and c to the coordinates of their
\* predecessors.
FlipTrianglesInPlace(G, a, b, c, d, e, f) ==
  LET G1 == Pinch(G, a, e)
      G2 == Pinch(G1, c, d)
      G3 == Pinch(G2, f, c)
  IN Pinch(G3, e, b)

\* flipTriangles(a, b, c, d, e, f)
FlipTriangles(G, a, b, c, d, e, f) ==
  LET G1 == Pinch(G, a, e)
      G2 == Pinch(G1, c, d)
      G3 == Pinch(G2, f, c)
      G4 == Pinch(G3, e, b)
  IN [G4 EXCEPT !.x = [@ EXCEPT ![e] = G.x[b], ![c] = G.x[f]],
                !.y = [@ EXCEPT ![e] = G.y[b], ![c] = G.y[f]],
                !.i = [@ EXCEPT ![e] = G.i[b], ![c] = G.i[f]]]

\* The flip of cleanupTriangulation made at the edge after node in its
\* face, whatever the masks of that edge are.
FlipAtNextEdge(G, node) ==
  LET other == G.faceSuccessor[node]
      mate == G.edgeMate[other]
      G1 == ClearMask(G,  G.facePredecessor[other], {"VISITED"})
      G2 == ClearMask(G1, G.faceSuccessor[other],   {"VISITED"})
      G3 == ClearMask(G2, G.facePredecessor[mate], {"VISITED"})
      G4 == ClearMask(G3, G.faceSuccessor[mate],   {"VISITED"})
  IN FlipTriangles(G4, G.faceSuccessor[mate], G.facePredecessor[mate], mate,
                   G.faceSuccessor[other], other, G.facePredecessor[other])

\* The flip that cleanupTriangulation makes at node when the determinant is
\* positive: the four neighbours lose VISITED, then the two triangles are
\* flipped.
FlipAt(G, node) ==
  LET mate == G.edgeMate[node]
      G1 == ClearMask(G,  G.facePredecessor[node], {"VISITED"})
      G2 == ClearMask(G1, G.faceSuccessor[node],   {"VISITED"})
      G3 == ClearMask(G2, G.facePredecessor[mate], {"VISITED"})
      G4 == ClearMask(G3, G.faceSuccessor[mate],   {"VISITED"})
  IN FlipTriangles(G4, G.faceSuccessor[mate], G.facePredecessor[mate], mate,
                   G.faceSuccessor[node], node, G.facePredecessor[node])

(***************************************************************************)
(* Inputs of the triangulation specification                               *)
(***************************************************************************)
\* Half-edges after which filterPoints is no longer followed.  Every other
\* routine stops by itself; a filterPoints that keeps cutting is cut short
\* here.
MaxHalfEdges == 40

\* Steps allowed to the walk of cureLocalIntersections.
CureFuel == 4 * MaxHalfEdges

DistinctSeqs(S, n) ==
  {s \in [1..n -> S] : \A j \in 1..n, k \in 1..n : j # k => s[j] # s[k]}

\* Every ordering of every subset of S.
LoopsOver(S) == UNION {DistinctSeqs(S, n) : n \in 0..Cardinality(S)}

\* Vertices of the single loops: six points in convex position with a
\* collinear run, a square with two points inside it, and the unit square.
\* The orderings of their subsets are convex, non-convex and self-crossing
\* polygons, and loops of fewer than three points.
PolygonPools ==
  { {<<0, 0>>, <<0, 1>>, <<2, 4>>, <<4, 4>>, <<2, 0>>, <<1, 0>>},
    {<<0, 0>>, <<4, 0>>, <<4, 4>>, <<0, 4>>, <<2, 1>>, <<1, 2>>},
    {<<0, 0>>, <<1, 0>>, <<1, 1>>, <<0, 1>>} }

SingleLoopInputs == {<<d>> : d \in UNION {LoopsOver(S) : S \in PolygonPools}}

\* Outer loops with the vertices their one hole is drawn from.  The first
\* family is the 4 x 4 square with a concentric 1 x 1 hole at twice the scale
\* (the vertices of the hole are then integers).
HoleFamilies ==
  { [outers |-> { <<<<0, 0>>, <<8, 0>>, <<8, 8>>, <<0, 8>>>>,
                  <<<<0, 0>>, <<0, 8>>, <<8, 8>>, <<8, 0>>>> },
     holePoints |-> {<<3, 3>>, <<5, 3>>, <<5, 5>>, <<3, 5>>}],
    [outers |-> { <<<<4, 1>>, <<0, 0>>, <<1, 1>>, <<2, 4>>>> },
     holePoints |-> {<<2, 3>>, <<3, 2>>, <<2, 1>>}],
    [outers |-> { <<<<0, 0>>, <<1, 1>>, <<4, 0>>, <<1, 4>>>> },
     holePoints |-> {<<3, 1>>, <<2, 2>>, <<2, 1>>}],
    [outers |-> { <<>>, <<<<0, 0>>>>, <<<<0, 0>>, <<8, 0>>>>,
                  <<<<0, 0>>, <<4, 0>>, <<8, 0>>>> },
     holePoints |-> {<<3, 3>>, <<5, 3>>}] }

\* The hole of an input may have no points at all.
HoleInputs ==
  UNION {{<<o, h>> : o \in F.outers, h \in LoopsOver(F.holePoints)} :
         F \in HoleFamilies}

\* Loops longer than this are triangulated with the hashed ear test.
HashThreshold == 80

\* Convex loops of more vertices than the hashing threshold: the points
\* (k, k * k), k = 0 .. n - 1, of a parabola, then points on the chord that
\* closes the loop, which are straight vertices.
ParabolaWithChord(n, chordXs) ==
  [k \in 1..n |-> <<k - 1, (k - 1) * (k - 1)>>]
    \o [j \in 1..Len(chordXs) |-> <<chordXs[j], chordXs[j] * (n - 1)>>]

Reversed(data) == [k \in 1..Len(data) |-> data[Len(data) + 1 - k]]

Parabola == ParabolaWithChord(HashThreshold + 1, <<>>)

\* A simple loop that is not convex: the parabola with a reflex vertex
\* between it and its chord.
NotchedParabola == ParabolaWithChord(HashThreshold, <<>>) \o <<<<46, 2370>>>>

HashedLoops ==
  {Parabola,
   ParabolaWithChord(HashThreshold + 1, <<HashThreshold \div 2>>),
   ParabolaWithChord(HashThreshold, <<60, 20>>),
   NotchedParabola}

\* Each of them counter-clockwise and clockwise.
HashedInputs == {<<d>> : d \in HashedLoops} \cup {<<Reversed(d)>> : d \in HashedLoops}

Inputs == SingleLoopInputs \cup HoleInputs

(***************************************************************************)
(* Z-order hashing of the ear test (earcutSingleLoop, data.length > 80)    *)
(*                                                                         *)
(* hash holds minX, minY and size as earcutSingleLoop passes them down     *)
(* (size 0: undefined, no hashing) and the zOrder, prevZ and nextZ of the  *)
(* half-edges that have them; 0 stands for an undefined link.              *)
(***************************************************************************)
PrevZ(H, n) == IF n \in DOMAIN H.prevZ THEN H.prevZ[n] ELSE 0

NextZ(H, n) == IF n \in DOMAIN H.nextZ THEN H.nextZ[n] ELSE 0

\* f with f[n] = v, whether or not n had a value.
Assign(f, n, v) == [k \in DOMAIN f \cup {n} |-> IF k = n THEN v ELSE f[k]]

\* The bits of v moved to the even positions: what the four shift-and-mask
\* lines of zOrder do to a 16-bit v.
RECURSIVE SpreadBits(_)
SpreadBits(v) == IF v = 0 THEN 0 ELSE (v % 2) + 4 * SpreadBits(v \div 2)

\* zOrder(x, y, minX, minY, size); the bit operators truncate the scaled
\* coordinates to integers.
ZOrder(x, y, minX, minY, size) ==
  LET sx == (32767 * (x - minX)) \div size
      sy == (32767 * (y - minY)) \div size
  IN SpreadBits(sx) + 2 * SpreadBits(sy)

\* sortLinked: a stable merge sort of the list by zOrder.  The place of the
\* k-th member in the sorted list is one more than the number of members
\* that are smaller, or equal and before it.
SortByZ(H, nodes) ==
  LET n == Len(nodes)
      Before(j, k) ==
        \/ H.zOrder[nodes[j]] < H.zOrder[nodes[k]]
        \/ H.zOrder[nodes[j]] = H.zOrder[nodes[k]] /\ j < k
      place == [k \in 1..n |-> 1 + Cardinality({j \in 1..n : Before(j, k)})]
  IN [q \in 1..n |-> nodes[CHOOSE k \in 1..n : place[k] = q]]

\* The prevZ and nextZ of the members of a list, in the order of the list.
LinkZ(H, list) ==
  LET at == [n \in {list[k] : k \in 1..Len(list)} |->
               CHOOSE k \in 1..Len(list) : list[k] = n]
      Linked(f, d) ==
        [n \in DOMAIN f \cup DOMAIN at |->
           IF n \in DOMAIN at
           THEN (IF at[n] + d \in 1..Len(list) THEN list[at[n] + d] ELSE 0)
           ELSE f[n]]
  IN [H EXCEPT !.prevZ = Linked(@, 0 - 1), !.nextZ = Linked(@, 1)]

\* The zOrder of the half-edges of a loop that have none yet.
SetZOrders(G, H, nodes) ==
  [H EXCEPT !.zOrder =
     [n \in DOMAIN @ \cup {nodes[k] : k \in 1..Len(nodes)} |->
        IF n \in DOMAIN @ THEN @[n]
        ELSE ZOrder(G.x[n], G.y[n], H.minX, H.minY, H.size)]]

\* indexCurve(start, minX, minY, size): the loop of start in face order is
\* made the z list, then sorted.
IndexCurve(G, H, start) ==
  LET order == FaceSeq(G, start)
      H1 == SetZOrders(G, H, order)
  IN LinkZ(H1, SortByZ(H1, order))

\* The first lines of earcutLinked(ear, minX, minY, size, pass).
IndexCurveIfHashed(G, H, e, ps) ==
  IF e # 0 /\ ps = 0 /\ H.size # 0 THEN IndexCurve(G, H, e) ELSE H

\* joinNeighborsOfEar, the lines on prevZ and nextZ: the ear is taken out of
\* the z list.
UnlinkZ(H, e) ==
  LET H1 == IF PrevZ(H, e) # 0
            THEN [H EXCEPT !.nextZ = Assign(@, PrevZ(H, e), NextZ(H, e))]
            ELSE H
  IN IF NextZ(H, e) # 0
     THEN [H1 EXCEPT !.prevZ = Assign(@, NextZ(H, e), PrevZ(H, e))]
     ELSE H1

RECURSIVE UnlinkAllZ(_, _)
UnlinkAllZ(H, removed) ==
  IF removed = <<>> THEN H ELSE UnlinkAllZ(UnlinkZ(H, Head(removed)), Tail(removed))

Min3(u, v, w) == IF u < v THEN (IF u < w THEN u ELSE w) ELSE (IF v < w THEN v ELSE w)

Max3(u, v, w) == IF u > v THEN (IF u > w THEN u ELSE w) ELSE (IF v > w THEN v ELSE w)

\* The same test without the condition that p is reflex or straight.
BlocksEarInTriangleOnly(G, e, p) ==
  LET a == G.facePredecessor[e]
      c == G.faceSuccessor[e]
  IN /\ p # a
     /\ p # c
     /\ PointInTriangle(G.x[a], G.y[a], G.x[e], G.y[e], G.x[c], G.y[c],
                        G.x[p], G.y[p])

\* The test of isEarHashed on a member p of the z list: p is neither
\* neighbour of the ear, lies in the triangle, and is reflex or straight.
BlocksEar(G, e, p) ==
  LET a == G.facePredecessor[e]
      c == G.faceSuccessor[e]
  IN /\ p # a
     /\ p # c
     /\ PointInTriangle(G.x[a], G.y[a], G.x[e], G.y[e], G.x[c], G.y[c],
                        G.x[p], G.y[p])
     /\ SignedTriangleArea(G, G.facePredecessor[p], p, G.faceSuccessor[p]) >= 0

\* nextZ or prevZ as a function that also has a value, 0, at 0.
ZLink(H, up) ==
  [n \in {0} \cup DOMAIN H.zOrder |->
     IF n = 0 THEN 0 ELSE IF up THEN NextZ(H, n) ELSE PrevZ(H, n)]

\* The while test of a loop of isEarHashed fails at p.
PastZ(H, p, up, limit) ==
  p = 0 \/ (IF up THEN H.zOrder[p] > limit ELSE H.zOrder[p] < limit)

\* The z list from p on, taken 4 times further at each try until it holds a
\* member at which the loop stops.
RECURSIVE StepsUntilPastZ(_, _, _, _, _)
StepsUntilPastZ(H, p, up, limit, n) ==
  LET S == Steps(ZLink(H, up), p, n)
  IN IF \E k \in 1..n : PastZ(H, S[k], up, limit) THEN S
     ELSE StepsUntilPastZ(H, p, up, limit, 4 * n)

\* A loop of isEarHashed from p on, in increasing z-order (up) to maxZ or in
\* decreasing z-order to minZ: TRUE when a member of the list met before the
\* loop stops blocks the ear.
BlockedAlongZ(G, H, e, p, up, limit) ==
  LET S == StepsUntilPastZ(H, p, up, limit, 4)
      end == CHOOSE k \in 1..Len(S) :
               /\ PastZ(H, S[k], up, limit)
               /\ \A j \in 1..(k - 1) : ~PastZ(H, S[j], up, limit)
  IN \E k \in 1..(end - 1) : BlocksEar(G, e, S[k])

\* isEarHashed(ear, minX, minY, size)
IsEarHashed(G, H, e) ==
  LET a == G.facePredecessor[e]
      c == G.faceSuccessor[e]
      minZ == ZOrder(Min3(G.x[a], G.x[e], G.x[c]), Min3(G.y[a], G.y[e], G.y[c]),
                     H.minX, H.minY, H.size)
      maxZ == ZOrder(Max3(G.x[a], G.x[e], G.x[c]), Max3(G.y[a], G.y[e], G.y[c]),
                     H.minX, H.minY, H.size)
  IN /\ SignedTriangleArea(G, a, e, c) < 0
     /\ ~BlockedAlongZ(G, H, e, NextZ(H, e), TRUE, maxZ)
     /\ ~BlockedAlongZ(G, H, e, PrevZ(H, e), FALSE, minZ)

\* The ear test of earcutLinked: size ? isEarHashed(...) : isEar(ear).
IsEarBySize(G, H, e) == IF H.size # 0 THEN IsEarHashed(G, H, e) ELSE IsEar(G, e)

\* The bounding box of earcutSingleLoop for data.length > 80: the least and
\* the greatest coordinate c of the points of data.
MinOf(data, c) ==
  CHOOSE m \in {data[k][c] : k \in 1..Len(data)} :
    \A k \in 1..Len(data) : m <= data[k][c]

MaxOf(data, c) ==
  CHOOSE m \in {data[k][c] : k \in 1..Len(data)} :
    \A k \in 1..Len(data) : m >= data[k][c]

\* minX, minY and size as earcutSingleLoop hands them to earcutLinked.
HashOfData(data) ==
  IF Len(data) > HashThreshold
  THEN LET minX == MinOf(data, 1)
           minY == MinOf(data, 2)
           maxX == MaxOf(data, 1)
           maxY == MaxOf(data, 2)
       IN [NoHash EXCEPT !.minX = minX, !.minY = minY,
                         !.size = IF maxX - minX > maxY - minY
                                  THEN maxX - minX ELSE maxY - minY]
  ELSE NoHash

(***************************************************************************)
(* The engine, one action per step of a routine                            *)
(***************************************************************************)
earVars == <<ear, stop, pass>>

filterVars == <<filterP, filterEnd>>

spliceVars == <<queue, outerNode>>

cleanVars == <<nodeIndex, foundNonVisited>>

InitEarcut ==
  /\ graph = EmptyGraph
  /\ loops \in Inputs
  /\ Idle("start")
  /\ ApartIdle

\* A call of earcutLinked(e, minX, minY, size, ps); the caller sets hash.
EnterEarcutLinked(e, ps) ==
  IF e = 0
  THEN pc' = "return" /\ ret' = 0 /\ UNCHANGED earVars
  ELSE pc' = "earcutLinked" /\ ear' = e /\ stop' = e /\ pass' = ps /\ UNCHANGED ret

\* A call of filterPoints(start, e).
EnterFilterPoints(start, e) ==
  IF start = 0
  THEN pc' = "return" /\ ret' = 0 /\ UNCHANGED filterVars
  ELSE /\ pc' = "filterPoints"
       /\ filterP' = start
       /\ filterEnd' = (IF e = 0 THEN start ELSE e)
       /\ UNCHANGED ret

\* earcutSingleLoop(data); the loop is indexed when data.length > 80.
EarcutSingleLoop ==
  /\ pc = "start"
  /\ Len(loops) = 1
  /\ LET r == CreateFaceLoopFromXAndYArray(graph, loops[1], TRUE, TRUE)
     IN /\ graph' = r.graph
        /\ IF r.node = 0
           THEN pc' = "done" /\ UNCHANGED <<earVars, ret, hash>>
           ELSE /\ EnterEarcutLinked(r.node, 0)
                /\ hash' = IndexCurveIfHashed(r.graph, HashOfData(loops[1]),
                                              r.node, 0)
  /\ UNCHANGED <<loops, apart, filterVars, stack, spliceVars, cleanVars>>

\* earcutOuterAndInnerLoops(loops) up to the first hole to eliminate.
EarcutOuterAndInnerLoops ==
  /\ pc = "start"
  /\ Len(loops) >= 1
  /\ LET r == CreateFaceLoopFromXAndYArray(graph, loops[1], TRUE, TRUE)
         h == ConstructHoles(r.graph, Tail(loops), <<>>)
     IN IF r.node = 0
        THEN /\ graph' = r.graph
             /\ pc' = "done"
             /\ UNCHANGED <<earVars, ret, spliceVars>>
        ELSE IF Len(loops) > 1 /\ h.threw
        THEN /\ graph' = h.graph
             /\ pc' = "threw"
             /\ UNCHANGED <<earVars, ret, spliceVars>>
        ELSE IF Len(loops) > 1
        THEN /\ graph' = h.graph
             /\ queue' = SortByX(h.graph, h.queue, <<>>)
             /\ outerNode' = r.node
             /\ pc' = "spliceLeftMostNodesOfHoles"
             /\ UNCHANGED <<earVars, ret>>
        ELSE /\ graph' = r.graph
             /\ EnterEarcutLinked(r.node, 0)
             /\ UNCHANGED spliceVars
  /\ UNCHANGED <<loops, apart, hash, filterVars, stack, cleanVars>>

\* eliminateHole(holeStart, outerNode, true) up to its call of filterPoints.
EliminateHole ==
  /\ pc = "spliceLeftMostNodesOfHoles"
  /\ queue # <<>>
  /\ LET hole == Head(queue)
         bridge == FindHoleBridge(graph, hole, outerNode)
         r == SplitPolygon(graph, bridge, hole)
     IN IF bridge # 0
        THEN /\ graph' = r.graph
             /\ EnterFilterPoints(r.node, r.graph.faceSuccessor[r.node])
        ELSE /\ graph' = graph
             /\ pc' = "return" /\ ret' = 0 /\ UNCHANGED filterVars
  /\ stack' = <<[kind |-> "eliminateHole", node |-> 0]>> \o stack
  /\ UNCHANGED <<loops, apart, hash, earVars, spliceVars, cleanVars>>

\* spliceLeftMostNodesOfHoles has no hole left: constructAndSpliceHoles
\* returns outerNode and earcutOuterAndInnerLoops calls earcutLinked on it.
SpliceReturn ==
  /\ pc = "spliceLeftMostNodesOfHoles"
  /\ queue = <<>>
  /\ EnterEarcutLinked(outerNode, 0)
  /\ UNCHANGED <<graph, loops, apart, hash, filterVars, stack, spliceVars, cleanVars>>

\* filterPoints: p is removed.
FilterPointsRemove ==
  /\ pc = "filterPoints"
  /\ IsRemovable(graph, filterP)
  /\ Len(graph.faceSuccessor) + 2 <= MaxHalfEdges
  /\ LET G1 == JoinNeighborsOfEar(graph, filterP)
         q  == G1.facePredecessor[filterP]
     IN /\ graph' = G1
        /\ hash' = UnlinkZ(hash, filterP)
        /\ filterP' = q
        /\ filterEnd' = q
        /\ IF q = G1.faceSuccessor[q]
           THEN pc' = "return" /\ ret' = 0
           ELSE UNCHANGED <<pc, ret>>
  /\ UNCHANGED <<loops, apart, earVars, stack, spliceVars, cleanVars>>

\* filterPoints: p is kept.
FilterPointsAdvance ==
  /\ pc = "filterPoints"
  /\ ~IsRemovable(graph, filterP)
  /\ LET q == graph.faceSuccessor[filterP]
     IN /\ filterP' = q
        /\ IF q # filterEnd
           THEN UNCHANGED <<pc, ret>>
           ELSE pc' = "return" /\ ret' = filterEnd
  /\ UNCHANGED <<graph, loops, apart, hash, filterEnd, earVars, stack, spliceVars, cleanVars>>


Frame(k, n) == [kind |-> k, node |-> n]

\* The routine in progress has returned ret: its caller goes on.
\*   splitEarcut.a  a = filterPoints(a, ...) has returned; node is c
\*   splitEarcut.c  c = filterPoints(c, ...) has returned; node is a
\*   earcutLinked   earcutLinked(a) has returned; earcutLinked(node) is next
\*   eliminateHole  eliminateHole has returned; the outer loop is filtered
\*   spliceLeftMostNodesOfHoles  that filterPoints has returned outerNode
Return ==
  /\ pc = "return"
  /\ IF stack = <<>>
     THEN /\ pc' = "done"
          /\ UNCHANGED <<ret, stack, earVars, filterVars, spliceVars, hash>>
     ELSE LET top  == Head(stack)
              rest == Tail(stack)
          IN CASE top.kind = "splitEarcut.a" ->
                    /\ EnterFilterPoints(top.node, graph.faceSuccessor[top.node])
                    /\ stack' = <<Frame("splitEarcut.c", ret)>> \o rest
                    /\ UNCHANGED <<earVars, spliceVars, hash>>
               [] top.kind = "splitEarcut.c" ->
                    /\ EnterEarcutLinked(top.node, 0)
                    /\ hash' = IndexCurveIfHashed(graph, hash, top.node, 0)
                    /\ stack' = <<Frame("earcutLinked", ret)>> \o rest
                    /\ UNCHANGED <<filterVars, spliceVars>>
               [] top.kind = "earcutLinked" ->
                    /\ EnterEarcutLinked(top.node, 0)
                    /\ hash' = IndexCurveIfHashed(graph, hash, top.node, 0)
                    /\ stack' = rest
                    /\ UNCHANGED <<filterVars, spliceVars>>
               [] top.kind = "eliminateHole" ->
                    /\ EnterFilterPoints(outerNode,
                         IF outerNode = 0 THEN 0 ELSE graph.faceSuccessor[outerNode])
                    /\ stack' = <<Frame("spliceLeftMostNodesOfHoles", 0)>> \o rest
                    /\ UNCHANGED <<earVars, spliceVars, hash>>
               [] top.kind = "spliceLeftMostNodesOfHoles" ->
                    /\ outerNode' = ret
                    /\ queue' = Tail(queue)
                    /\ pc' = "spliceLeftMostNodesOfHoles"
                    /\ stack' = rest
                    /\ UNCHANGED <<ret, earVars, filterVars, hash>>
  /\ UNCHANGED <<graph, loops, apart, cleanVars>>

\* earcutLinked: the while test fails, the ear is already in a triangle.
EarcutLinkedExit ==
  /\ pc = "earcutLinked"
  /\ IsMaskSet(graph, ear, "TRIANGULATED_NODE_MASK")
  /\ pc' = "return"
  /\ ret' = 0
  /\ UNCHANGED <<graph, loops, apart, hash, earVars, filterVars, stack, spliceVars, cleanVars>>

\* earcutLinked that cuts the ear off whatever the length of the loop, the
\* last triangle included.
EarcutLinkedCutAlways ==
  /\ pc = "earcutLinked"
  /\ ~IsMaskSet(graph, ear, "TRIANGULATED_NODE_MASK")
  /\ IsEarBySize(graph, hash, ear)
  /\ LET next == graph.faceSuccessor[ear]
         G1 == JoinNeighborsOfEar(graph, ear)
     IN /\ stop' = graph.faceSuccessor[next]
        /\ graph' = G1
        /\ hash' = UnlinkZ(hash, ear)
        /\ ear' = G1.faceSuccessor[G1.faceSuccessor[G1.edgeMate[G1.faceSuccessor[ear]]]]
  /\ UNCHANGED <<loops, apart, pc, pass, filterVars, ret, stack, spliceVars, cleanVars>>

\* earcutLinked: the ear is cut off a loop of more than three half-edges.
EarcutLinkedCut ==
  /\ pc = "earcutLinked"
  /\ ~IsMaskSet(graph, ear, "TRIANGULATED_NODE_MASK")
  /\ IsEarBySize(graph, hash, ear)
  /\ graph.faceSuccessor[graph.faceSuccessor[ear]] # graph.facePredecessor[ear]
  /\ LET next == graph.faceSuccessor[ear]
         G1 == JoinNeighborsOfEar(graph, ear)
     IN /\ stop' = graph.faceSuccessor[next]
        /\ graph' = G1
        /\ hash' = UnlinkZ(hash, ear)
        /\ ear' = G1.faceSuccessor[G1.faceSuccessor[G1.edgeMate[G1.faceSuccessor[ear]]]]
  /\ UNCHANGED <<loops, apart, pc, pass, filterVars, ret, stack, spliceVars, cleanVars>>

\* earcutLinked: the loop left is the last triangle.
EarcutLinkedLastTriangle ==
  /\ pc = "earcutLinked"
  /\ ~IsMaskSet(graph, ear, "TRIANGULATED_NODE_MASK")
  /\ IsEarBySize(graph, hash, ear)
  /\ graph.faceSuccessor[graph.faceSuccessor[ear]] = graph.facePredecessor[ear]
  /\ LET next == graph.faceSuccessor[ear]
         G1 == SetMask(graph, ear, {"TRIANGULATED_NODE_MASK"})
         G2 == SetMask(G1, graph.faceSuccessor[ear], {"TRIANGULATED_NODE_MASK"})
     IN /\ stop' = graph.faceSuccessor[next]
        /\ graph' = SetMask(G2, graph.facePredecessor[ear], {"TRIANGULATED_NODE_MASK"})
        /\ ear' = graph.faceSuccessor[next]
  /\ UNCHANGED <<loops, apart, hash, pc, pass, filterVars, ret, stack, spliceVars, cleanVars>>

\* earcutLinked walking on without the test against stop.
EarcutLinkedAdvancePastStop ==
  /\ pc = "earcutLinked"
  /\ ~IsMaskSet(graph, ear, "TRIANGULATED_NODE_MASK")
  /\ ~IsEarBySize(graph, hash, ear)
  /\ ear' = graph.faceSuccessor[ear]
  /\ UNCHANGED <<graph, loops, apart, hash, pc, stop, pass, filterVars, ret, stack, spliceVars, cleanVars>>

\* earcutLinked: not an ear, and the walk has not come round to stop.
EarcutLinkedAdvance ==
  /\ pc = "earcutLinked"
  /\ ~IsMaskSet(graph, ear, "TRIANGULATED_NODE_MASK")
  /\ ~IsEarBySize(graph, hash, ear)
  /\ graph.faceSuccessor[ear] # stop
  /\ ear' = graph.faceSuccessor[ear]
  /\ UNCHANGED <<graph, loops, apart, hash, pc, stop, pass, filterVars, ret, stack, spliceVars, cleanVars>>

\* earcutLinked: no ear in a whole round of the first pass;
\* cureLocalIntersections, then earcutLinked again with pass 2, after which
\* the loop is left (break).
EarcutLinkedCure ==
  /\ pc = "earcutLinked"
  /\ ~IsMaskSet(graph, ear, "TRIANGULATED_NODE_MASK")
  /\ ~IsEarBySize(graph, hash, ear)
  /\ graph.faceSuccessor[ear] = stop
  /\ pass = 0
  /\ LET r == CureLocalIntersections(graph, stop, stop, CureFuel)
     IN /\ r.finished
        /\ graph' = r.graph
        /\ hash' = UnlinkAllZ(hash, r.removed)
        /\ EnterEarcutLinked(r.node, 2)
  /\ UNCHANGED <<loops, apart, filterVars, stack, spliceVars, cleanVars>>

\* earcutLinked: no ear in a whole round of a later pass; splitEarcut up to
\* its first call of filterPoints, or to its end when no diagonal is found.
EarcutLinkedSplit ==
  /\ pc = "earcutLinked"
  /\ ~IsMaskSet(graph, ear, "TRIANGULATED_NODE_MASK")
  /\ ~IsEarBySize(graph, hash, ear)
  /\ graph.faceSuccessor[ear] = stop
  /\ pass # 0
  /\ LET d == IF pass = 2 THEN FindDiagonal(graph, stop) ELSE <<>>
         r == SplitPolygon(graph, d[1], d[2])
     IN IF d = <<>>
        THEN /\ pc' = "return" /\ ret' = 0
             /\ UNCHANGED <<graph, stack, filterVars>>
        ELSE /\ graph' = r.graph
             /\ EnterFilterPoints(d[1], r.graph.faceSuccessor[d[1]])
             /\ stack' = <<Frame("splitEarcut.a", r.node)>> \o stack
  /\ UNCHANGED <<loops, apart, hash, earVars, spliceVars, cleanVars>>

\* cleanupTriangulation(graph) is called on the graph returned.
CleanupTriangulation ==
  /\ pc = "done"
  /\ graph' = ClearMaskInGraph(graph, {"VISITED"})
  /\ nodeIndex' = 1
  /\ foundNonVisited' = FALSE
  /\ pc' = "cleanupTriangulation"
  /\ UNCHANGED <<loops, apart, hash, earVars, filterVars, ret, stack, spliceVars>>

\* cleanupTriangulation: the node is VISITED already (continue).
CleanupVisited ==
  /\ pc = "cleanupTriangulation"
  /\ nodeIndex <= Len(graph.faceSuccessor)
  /\ IsMaskSet(graph, nodeIndex, "VISITED")
  /\ nodeIndex' = nodeIndex + 1
  /\ UNCHANGED <<graph, loops, apart, hash, pc, foundNonVisited, earVars, filterVars, ret,
                 stack, spliceVars>>

\* cleanupTriangulation: the node is on an edge that may not flip (continue).
CleanupNoFlipAllowed ==
  /\ pc = "cleanupTriangulation"
  /\ nodeIndex <= Len(graph.faceSuccessor)
  /\ ~IsMaskSet(graph, nodeIndex, "VISITED")
  /\ \/ IsMaskSet(graph, nodeIndex, "EXTERIOR")
     \/ IsMaskSet(graph, nodeIndex, "PRIMARY_EDGE")
  /\ graph' = SetMask(graph, nodeIndex, {"VISITED"})
  /\ nodeIndex' = nodeIndex + 1
  /\ UNCHANGED <<loops, apart, hash, pc, foundNonVisited, earVars, filterVars, ret, stack,
                 spliceVars>>

\* The end of an iteration of cleanupTriangulation that reached line 93:
\* at the last node, with foundNonVisited set, the scan starts again.
CleanupNextIndex(found) ==
  IF nodeIndex = Len(graph.faceSuccessor) /\ found
  THEN nodeIndex' = 1 /\ foundNonVisited' = FALSE
  ELSE nodeIndex' = nodeIndex + 1 /\ foundNonVisited' = found

\* cleanupTriangulation that does not mark the interior half-edge it keeps.
CleanupKeepUnvisited ==
  /\ pc = "cleanupTriangulation"
  /\ nodeIndex <= Len(graph.faceSuccessor)
  /\ ~IsMaskSet(graph, nodeIndex, "VISITED")
  /\ ~IsMaskSet(graph, nodeIndex, "EXTERIOR")
  /\ ~IsMaskSet(graph, nodeIndex, "PRIMARY_EDGE")
  /\ ~(InCircleDefined(graph, nodeIndex) /\ ComputeInCircleDeterminant(graph, nodeIndex) > 0)
  /\ CleanupNextIndex(TRUE)
  /\ UNCHANGED <<graph, loops, apart, hash, pc, earVars, filterVars, ret, stack, spliceVars>>

\* cleanupTriangulation: an interior edge that is kept.
CleanupKeep ==
  /\ pc = "cleanupTriangulation"
  /\ nodeIndex <= Len(graph.faceSuccessor)
  /\ ~IsMaskSet(graph, nodeIndex, "VISITED")
  /\ ~IsMaskSet(graph, nodeIndex, "EXTERIOR")
  /\ ~IsMaskSet(graph, nodeIndex, "PRIMARY_EDGE")
  /\ ~(InCircleDefined(graph, nodeIndex) /\ ComputeInCircleDeterminant(graph, nodeIndex) > 0)
  /\ graph' = SetMask(graph, nodeIndex, {"VISITED"})
  /\ CleanupNextIndex(TRUE)
  /\ UNCHANGED <<loops, apart, hash, pc, earVars, filterVars, ret, stack, spliceVars>>

\* cleanupTriangulation flipping on a determinant of zero as well.
CleanupFlipOnZero ==
  /\ pc = "cleanupTriangulation"
  /\ nodeIndex <= Len(graph.faceSuccessor)
  /\ ~IsMaskSet(graph, nodeIndex, "VISITED")
  /\ ~IsMaskSet(graph, nodeIndex, "EXTERIOR")
  /\ ~IsMaskSet(graph, nodeIndex, "PRIMARY_EDGE")
  /\ InCircleDefined(graph, nodeIndex)
  /\ ComputeInCircleDeterminant(graph, nodeIndex) >= 0
  /\ graph' = FlipAt(SetMask(graph, nodeIndex, {"VISITED"}), nodeIndex)
  /\ CleanupNextIndex(TRUE)
  /\ UNCHANGED <<loops, apart, hash, pc, earVars, filterVars, ret, stack, spliceVars>>

\* cleanupTriangulation: an interior edge that is flipped.
CleanupFlip ==
  /\ pc = "cleanupTriangulation"
  /\ nodeIndex <= Len(graph.faceSuccessor)
  /\ ~IsMaskSet(graph, nodeIndex, "VISITED")
  /\ ~IsMaskSet(graph, nodeIndex, "EXTERIOR")
  /\ ~IsMaskSet(graph, nodeIndex, "PRIMARY_EDGE")
  /\ InCircleDefined(graph, nodeIndex)
  /\ ComputeInCircleDeterminant(graph, nodeIndex) > 0
  /\ graph' = FlipAt(SetMask(graph, nodeIndex, {"VISITED"}), nodeIndex)
  /\ CleanupNextIndex(TRUE)
  /\ UNCHANGED <<loops, apart, hash, pc, earVars, filterVars, ret, stack, spliceVars>>

\* cleanupTriangulation: the scan is over; VISITED is cleared.
CleanupReturn ==
  /\ pc = "cleanupTriangulation"
  /\ nodeIndex > Len(graph.faceSuccessor)
  /\ graph' = ClearMaskInGraph(graph, {"VISITED"})
  /\ pc' = "cleaned"
  /\ UNCHANGED <<loops, apart, hash, cleanVars, earVars, filterVars, ret, stack, spliceVars>>

(***************************************************************************)
(* Connected components and parity (topology/HalfEdgeGraphSearch.js)       *)
(***************************************************************************)
\* Masks handed to collectConnectedComponents as parityMask.
ParityMasks == {"EXTERIOR", "BOUNDARY"}

\* pushAndMaskAllNodesInFace that sets the mask on the seed alone.
PushAndMaskSeedOnly(S, faceSeed, ms) ==
  [graph |-> SetMask(S.graph, faceSeed, ms),
   stack |-> S.stack \o FaceSeq(S.graph, faceSeed),
   faces |-> Append(S.faces, faceSeed)]

\* pushAndMaskAllNodesInFace(faceSeed, mask, allNodeStack, onePerFaceStack);
\* the search is the record [graph, stack, faces].
PushAndMaskAllNodesInFace(S, faceSeed, ms) ==
  [graph |-> SetMaskAroundFace(S.graph, faceSeed, ms),
   stack |-> S.stack \o FaceSeq(S.graph, faceSeed),
   faces |-> Append(S.faces, faceSeed)]

\* The flood of parityFloodFromSeed that gives every face it reaches the
\* parity mask, whatever the parity of the face it comes from.
RECURSIVE ParityFloodSameParity(_, _)
ParityFloodSameParity(S, parityMask) ==
  IF S.stack = <<>> THEN S
  ELSE LET p == S.stack[Len(S.stack)]
           popped == [S EXCEPT !.stack = SubSeq(S.stack, 1, Len(S.stack) - 1)]
           mate == S.graph.edgeMate[p]
       IN IF mate = 0 \/ IsMaskSet(S.graph, mate, "VISITED")
          THEN ParityFloodSameParity(popped, parityMask)
          ELSE ParityFloodSameParity(
                 PushAndMaskAllNodesInFace(popped, mate, {parityMask, "VISITED"}),
                 parityMask)

\* The while loop of parityFloodFromSeed.
RECURSIVE ParityFlood(_, _)
ParityFlood(S, parityMask) ==
  IF S.stack = <<>> THEN S
  ELSE LET p == S.stack[Len(S.stack)]
           popped == [S EXCEPT !.stack = SubSeq(S.stack, 1, Len(S.stack) - 1)]
           mate == S.graph.edgeMate[p]
           mateState == ~IsMaskSet(S.graph, p, parityMask)
       IN IF mate = 0 \/ IsMaskSet(S.graph, mate, "VISITED")
          THEN ParityFlood(popped, parityMask)
          ELSE ParityFlood(
                 PushAndMaskAllNodesInFace(popped, mate,
                   IF mateState THEN {parityMask, "VISITED"} ELSE {"VISITED"}),
                 parityMask)

\* parityFloodFromSeed that stops at the face of its seed.
ParityFloodSeedFaceOnly(G, seedEdge, parityMask) ==
  IF IsMaskSet(G, seedEdge, "VISITED")
  THEN [graph |-> G, stack |-> <<>>, faces |-> <<>>]
  ELSE [PushAndMaskAllNodesInFace([graph |-> G, stack |-> <<>>, faces |-> <<>>],
                                  seedEdge, {parityMask, "VISITED"})
          EXCEPT !.stack = <<>>]

\* parityFloodFromSeed(seedEdge, visitMask, parityMask), visitMask = VISITED.
ParityFloodFromSeed(G, seedEdge, parityMask) ==
  IF IsMaskSet(G, seedEdge, "VISITED")
  THEN [graph |-> G, stack |-> <<>>, faces |-> <<>>]
  ELSE ParityFlood(
         PushAndMaskAllNodesInFace([graph |-> G, stack |-> <<>>, faces |-> <<>>],
                                   seedEdge, {parityMask, "VISITED"}),
         parityMask)

\* findMinimumAreaFace(nodes): the loop, with the best node and area so far
\* (areas doubled; noArea stands for Number.MAX_VALUE).
RECURSIVE FindMinimumAreaFaceFrom(_, _, _, _, _)
FindMinimumAreaFaceFrom(G, nodes, best, bestArea, noArea) ==
  IF nodes = <<>> THEN best
  ELSE LET area == SignedFaceArea(G, Head(nodes))
       IN IF area < 0 /\ (noArea \/ area < bestArea)
          THEN FindMinimumAreaFaceFrom(G, Tail(nodes), Head(nodes), area, FALSE)
          ELSE FindMinimumAreaFaceFrom(G, Tail(nodes), best, bestArea, noArea)

FindMinimumAreaFace(G, nodes) ==
  FindMinimumAreaFaceFrom(G, nodes, nodes[1], 0, TRUE)

\* The toggle loop of correctParityInSingleComponent.
RECURSIVE ToggleFaces(_, _, _)
ToggleFaces(G, faces, mask) ==
  IF faces = <<>> THEN G
  ELSE LET faceSeed == Head(faces)
           L == FaceLoop(G, faceSeed)
           G1 == IF IsMaskSet(G, faceSeed, mask)
                 THEN [G EXCEPT !.mask = [k \in Nodes(G) |->
                                   IF k \in L THEN @[k] \ {mask} ELSE @[k]]]
                 ELSE SetMaskAroundFace(G, faceSeed, {mask})
       IN ToggleFaces(G1, Tail(faces), mask)

\* correctParityInSingleComponent that takes the first face of the list for
\* the exterior face.
CorrectParityFromFirstFace(G, mask, faces) ==
  IF IsMaskSet(G, faces[1], mask) THEN G
  ELSE ToggleFaces(G, faces, mask)

\* correctParityInSingleComponent(_graph, mask, faces)
CorrectParityInSingleComponent(G, mask, faces) ==
  IF IsMaskSet(G, FindMinimumAreaFace(G, faces), mask) THEN G
  ELSE ToggleFaces(G, faces, mask)

\* correctParityInComponentArrays(graph, mask, components), mask not null.
RECURSIVE CorrectParityInComponentArrays(_, _, _)
CorrectParityInComponentArrays(G, mask, comps) ==
  IF comps = <<>> THEN G
  ELSE CorrectParityInComponentArrays(
         CorrectParityInSingleComponent(G, mask, Head(comps)), mask, Tail(comps))

\* The loop of collectConnectedComponents over graph.allHalfEdges, from
\* faceSeed on.
RECURSIVE CollectFrom(_, _, _, _)
CollectFrom(G, faceSeed, comps, parityMask) ==
  IF faceSeed > Len(G.faceSuccessor) THEN [graph |-> G, components |-> comps]
  ELSE IF IsMaskSet(G, faceSeed, "VISITED")
  THEN CollectFrom(G, faceSeed + 1, comps, parityMask)
  ELSE LET S == ParityFloodFromSeed(G, faceSeed, parityMask)
       IN CollectFrom(S.graph, faceSeed + 1, Append(comps, S.faces), parityMask)

\* collectConnectedComponents(graph, parityMask)
CollectConnectedComponents(G, parityMask) ==
  LET r == CollectFrom(ClearMaskInGraph(G, {parityMask, "VISITED"}), 1, <<>>,
                       parityMask)
  IN [graph |-> CorrectParityInComponentArrays(r.graph, parityMask, r.components),
      components |-> r.components]

\* collectConnectedComponents is called on the graph a triangulation has
\* returned, before or after its flip cleanup.
DoCollectConnectedComponents ==
  /\ pc \in {"done", "cleaned"}
  /\ \E parityMask \in ParityMasks :
       LET r == CollectConnectedComponents(graph, parityMask)
       IN /\ graph' = r.graph
          /\ components' = [parityMask |-> parityMask, found |-> r.components]
  /\ pc' = "collected"
  /\ UNCHANGED <<loops, returnGraph, heap, allHalfEdges, runs, hash, earVars,
                 filterVars, ret, stack, spliceVars, cleanVars>>

NextEarcut ==
  \/ EarcutSingleLoop
  \/ EarcutOuterAndInnerLoops
  \/ EliminateHole
  \/ SpliceReturn
  \/ FilterPointsRemove
  \/ FilterPointsAdvance
  \/ Return
  \/ EarcutLinkedExit
  \/ EarcutLinkedCut
  \/ EarcutLinkedLastTriangle
  \/ EarcutLinkedAdvance
  \/ EarcutLinkedCure
  \/ EarcutLinkedSplit
  \/ CleanupTriangulation
  \/ CleanupVisited
  \/ CleanupNoFlipAllowed
  \/ CleanupKeep
  \/ CleanupFlip
  \/ CleanupReturn
  \/ DoCollectConnectedComponents

SpecEarcut == InitEarcut /\ [][NextEarcut]_vars


(***************************************************************************)
(* Geometry of the input loops and of the faces of the result              *)
(***************************************************************************)
Abs(v) == IF v < 0 THEN 0 - v ELSE v

Cross(o, a, b) == (a[1] - o[1]) * (b[2] - o[2]) - (a[2] - o[2]) * (b[1] - o[1])

\* pt lies on the closed segment a b.
OnSegment(a, b, pt) ==
  /\ Cross(a, b, pt) = 0
  /\ (a[1] <= pt[1] /\ pt[1] <= b[1]) \/ (b[1] <= pt[1] /\ pt[1] <= a[1])
  /\ (a[2] <= pt[2] /\ pt[2] <= b[2]) \/ (b[2] <= pt[2] /\ pt[2] <= a[2])

\* The closed segments a b and c d have a point in common.
SegmentsMeet(a, b, c, d) ==
  \/ /\ (Cross(c, d, a) > 0 /\ Cross(c, d, b) < 0) \/ (Cross(c, d, a) < 0 /\ Cross(c, d, b) > 0)
     /\ (Cross(a, b, c) > 0 /\ Cross(a, b, d) < 0) \/ (Cross(a, b, c) < 0 /\ Cross(a, b, d) > 0)
  \/ OnSegment(c, d, a) \/ OnSegment(c, d, b)
  \/ OnSegment(a, b, c) \/ OnSegment(a, b, d)

Vertex(poly, k) == poly[((k - 1) % Len(poly)) + 1]

\* Twice the signed area of the polygon (positive counterclockwise).
RECURSIVE ShoelaceFrom(_, _)
ShoelaceFrom(poly, k) ==
  IF k > Len(poly) THEN 0
  ELSE Vertex(poly, k)[1] * Vertex(poly, k + 1)[2]
       - Vertex(poly, k + 1)[1] * Vertex(poly, k)[2]
       + ShoelaceFrom(poly, k + 1)

PolygonArea2(poly) == ShoelaceFrom(poly, 1)

\* A simple polygon: three or more distinct vertices, edges that share a
\* vertex meet only there, other edges do not meet, and the area is not 0.
\* Straight (collinear) vertices are allowed.
IsSimplePolygon(poly) ==
  LET n == Len(poly)
  IN /\ n >= 3
     /\ \A j \in 1..n, k \in 1..n : j # k => poly[j] # poly[k]
     /\ \A j \in 1..n, k \in 1..n :
          j < k =>
            LET a == Vertex(poly, j)
                b == Vertex(poly, j + 1)
                c == Vertex(poly, k)
                d == Vertex(poly, k + 1)
            IN IF k = j + 1 THEN ~OnSegment(a, b, d) /\ ~OnSegment(c, d, a)
               ELSE IF j = 1 /\ k = n THEN ~OnSegment(a, b, c) /\ ~OnSegment(c, d, b)
               ELSE ~SegmentsMeet(a, b, c, d)
     /\ PolygonArea2(poly) # 0

\* pt is inside the polygon and not on its border.
CrossesRay(poly, k, pt) ==
  LET a == Vertex(poly, k)
      b == Vertex(poly, k + 1)
      sgn == IF b[2] > a[2] THEN 1 ELSE 0 - 1
  IN /\ (a[2] > pt[2]) # (b[2] > pt[2])
     /\ (b[1] - a[1]) * (pt[2] - a[2]) * sgn > (pt[1] - a[1]) * (b[2] - a[2]) * sgn

StrictlyInside(pt, poly) ==
  /\ \A k \in 1..Len(poly) : ~OnSegment(Vertex(poly, k), Vertex(poly, k + 1), pt)
  /\ Cardinality({k \in 1..Len(poly) : CrossesRay(poly, k, pt)}) % 2 = 1

\* The hole loop lies strictly inside the outer loop.
HoleStrictlyInside(hole, outer) ==
  /\ \A k \in 1..Len(hole) : StrictlyInside(hole[k], outer)
  /\ \A j \in 1..Len(hole), k \in 1..Len(outer) :
       ~SegmentsMeet(Vertex(hole, j), Vertex(hole, j + 1),
                     Vertex(outer, k), Vertex(outer, k + 1))

\* One simple polygon and no hole.
SimpleSingleLoop == Len(loops) = 1 /\ IsSimplePolygon(loops[1])

\* A simple outer loop with one simple hole loop strictly inside it.
OuterWithOneHole ==
  /\ Len(loops) = 2
  /\ IsSimplePolygon(loops[1])
  /\ IsSimplePolygon(loops[2])
  /\ HoleStrictlyInside(loops[2], loops[1])

\* HalfEdgeGraph.announceFaceLoops hands every face to the visitor by its
\* first half-edge in allHalfEdges; PolyfaceBuilder.addGraph keeps the faces
\* whose seed passes testNodeMaskNotExterior.
FaceSeed(L) == CHOOSE h \in L : \A k \in L : h <= k

NonExteriorFaces(G) == {L \in FaceLoops(G) : ~IsMaskSet(G, FaceSeed(L), "EXTERIOR")}

\* The triangles produced: the faces all of whose half-edges carry
\* TRIANGULATED_NODE_MASK.
TriangulatedFaces(G) ==
  {L \in FaceLoops(G) : \A h \in L : IsMaskSet(G, h, "TRIANGULATED_NODE_MASK")}

\* Twice the unsigned area of a face.
FaceArea2(G, L) == Abs(SignedFaceArea(G, FaceSeed(L)))

RECURSIVE SumFaceArea2(_, _)
SumFaceArea2(G, faces) ==
  IF faces = {} THEN 0
  ELSE LET L == CHOOSE f \in faces : TRUE
       IN FaceArea2(G, L) + SumFaceArea2(G, faces \ {L})

\* An edge that cleanupTriangulation may flip: neither EXTERIOR nor
\* PRIMARY_EDGE, with a triangle on both sides.
IsInteriorEdge(G, h) ==
  /\ ~IsMaskSet(G, h, "EXTERIOR")
  /\ ~IsMaskSet(G, h, "PRIMARY_EDGE")
  /\ InCircleDefined(G, h)


(***************************************************************************)
(* Properties of the triangulation                                         *)
(***************************************************************************)
\* No face cycle of one or two half-edges.
FaceCyclesAtLeast3(G) ==
  \A h \in Nodes(G) :
    G.faceSuccessor[h] # h /\ G.faceSuccessor[G.faceSuccessor[h]] # h

C7_TrianglesAreThreeCycles ==
  pc \in {"done", "cleaned"} =>
    \A L \in TriangulatedFaces(graph) :
      /\ Cardinality(L) = 3
      /\ \A h \in L :
           /\ graph.edgeMate[h] \in Nodes(graph)
           /\ graph.edgeMate[h] # h
           /\ graph.edgeMate[graph.edgeMate[h]] = h

\* A result with three triangles or more next to a face of two half-edges
\* that cureLocalIntersections left behind, one of them marked.
C7_Witness ==
  /\ pc = "done"
  /\ Cardinality(TriangulatedFaces(graph)) >= 3
  /\ \E L \in FaceLoops(graph) :
       /\ Cardinality(L) = 2
       /\ \E h \in L : IsMaskSet(graph, h, "TRIANGULATED_NODE_MASK")

\* C8: when cleanupTriangulation returns (here on the triangulation of a
\* simple polygon), no interior edge has a strictly positive in-circle
\* determinant.
C8_NoPositiveInCircleLeft ==
  (pc = "cleaned" /\ SimpleSingleLoop) =>
    \A h \in Nodes(graph) :
      IsInteriorEdge(graph, h) => ComputeInCircleDeterminant(graph, h) <= 0

UnitSquare == <<<<0, 0>>, <<1, 0>>, <<1, 1>>, <<0, 1>>>>

Square4 == <<<<0, 0>>, <<8, 0>>, <<8, 8>>, <<0, 8>>>>

Hole1 == <<<<3, 3>>, <<5, 3>>, <<5, 5>>, <<3, 5>>>>

\* C10: for an outer loop with one hole loop strictly inside it, the
\* triangles that earcutOuterAndInnerLoops produces have total unsigned area
\* area(outer) - area(hole) (both doubled here); for the 4 x 4 square with
\* the concentric 1 x 1 hole the total is 15 (at twice the scale and
\* doubled, 4 * 2 * 15).
C10_HoleAreaDifference ==
  /\ (pc = "done" /\ OuterWithOneHole) =>
       SumFaceArea2(graph, TriangulatedFaces(graph))
         = Abs(PolygonArea2(loops[1])) - Abs(PolygonArea2(loops[2]))
  /\ (pc = "done" /\ loops = <<Square4, Hole1>>) =>
       SumFaceArea2(graph, TriangulatedFaces(graph)) = 4 * 2 * 15

(***************************************************************************)
(* Degenerate loops                                                        *)
(***************************************************************************)
\* A loop of the input has fewer than 3 points.
HasShortLoop == \E k \in 1..Len(loops) : Len(loops[k]) < 3

\* C11: an entry point given an outer loop or a hole loop of fewer than 3
\* points (an empty point list included) returns normally: no run on such an
\* input ends in a thrown exception.
C11_ShortLoopsReturnNormally == HasShortLoop => pc # "threw"

(***************************************************************************)
(* Two runs of earcutSingleLoop whose steps interleave                     *)
(*                                                                         *)
(* Triangulator._returnGraph is a static: every run assigns it on entry    *)
(* and reads it again wherever a half-edge is created and where the run    *)
(* returns.  The half-edges of all graphs live in heap; allHalfEdges[g] is *)
(* the membership of graph g, the graph made by run g.  Every half-edge    *)
(* has id 0 here, so that splitEarcut finds no diagonal.                   *)
(***************************************************************************)
Runs == {1, 2}

\* Loops given to the two runs: a triangle, the unit square, a quadrilateral
\* with a reflex vertex, and a loop that crosses itself.
RunInputs ==
  { <<<<0, 0>>, <<1, 0>>, <<0, 1>>>>,
    <<<<0, 0>>, <<1, 0>>, <<1, 1>>, <<0, 1>>>>,
    <<<<4, 1>>, <<0, 0>>, <<1, 1>>, <<2, 4>>>>,
    <<<<0, 0>>, <<1, 1>>, <<1, 0>>, <<0, 1>>>>,
    <<>> }

\* The variables of the triangulation of one input.
single == <<graph, loops, pc, ear, stop, pass, filterP, filterEnd, ret, stack,
            queue, outerNode, nodeIndex, foundNonVisited, hash>>

InitReentrant ==
  /\ graph = EmptyGraph
  /\ loops = <<>>
  /\ Idle("runs")
  /\ returnGraph = 0
  /\ heap = EmptyGraph
  /\ allHalfEdges = [g \in Runs |-> {}]
  /\ runs \in [Runs -> {[pc |-> "idle", data |-> d, ear |-> 0, stop |-> 0,
                         pass |-> 0, made |-> {}, result |-> 0] :
                        d \in RunInputs}]
  /\ components = <<>>

\* The half-edges that G1 has and heap has not are pushed on the
\* allHalfEdges of the graph _returnGraph refers to.
AddToReturnGraph(G1) ==
  /\ heap' = G1
  /\ allHalfEdges' = [allHalfEdges EXCEPT
                        ![returnGraph] = @ \cup (Nodes(G1) \ Nodes(heap))]

\* Run r, having created the half-edges G1 adds to heap, goes on as rec.
RunCreates(r, G1, rec) ==
  /\ AddToReturnGraph(G1)
  /\ runs' = [runs EXCEPT
                ![r] = [rec EXCEPT !.made = @ \cup (Nodes(G1) \ Nodes(heap))]]
  /\ UNCHANGED <<returnGraph, components, single>>

\* Run r goes on as rec without touching a graph.
RunGoes(r, rec) ==
  /\ runs' = [runs EXCEPT ![r] = rec]
  /\ UNCHANGED <<returnGraph, heap, allHalfEdges, components, single>>

\* earcutLinked(e, ..., ps) is entered by a run.
RunEntersEarcutLinked(rec, e, ps) ==
  IF e = 0 THEN [rec EXCEPT !.pc = "return"]
  ELSE [rec EXCEPT !.pc = "earcutLinked", !.ear = e, !.stop = e, !.pass = ps]

\* earcutSingleLoop is called: _returnGraph = new HalfEdgeGraph().
RunNewGraph ==
  \E r \in Runs :
    /\ runs[r].pc = "idle"
    /\ returnGraph' = r
    /\ allHalfEdges' = [allHalfEdges EXCEPT ![r] = {}]
    /\ runs' = [runs EXCEPT ![r].pc = "createFaceLoop"]
    /\ UNCHANGED <<heap, components, single>>

\* createFaceLoopFromXAndYArray(data, true, true), then the entry of
\* earcutLinked(startingNode).
RunCreateFaceLoop ==
  \E r \in Runs :
    /\ runs[r].pc = "createFaceLoop"
    /\ LET c == CreateFaceLoopFromXAndYArray(heap, runs[r].data, TRUE, TRUE)
       IN RunCreates(r, c.graph, RunEntersEarcutLinked(runs[r], c.node, 0))


\* Run r is in the loop of earcutLinked, at an ear not yet in a triangle.
RunAtEar(r) ==
  /\ runs[r].pc = "earcutLinked"
  /\ ~IsMaskSet(heap, runs[r].ear, "TRIANGULATED_NODE_MASK")

\* earcutLinked of a run: the while test fails.
RunEarcutLinkedExit ==
  \E r \in Runs :
    /\ runs[r].pc = "earcutLinked"
    /\ IsMaskSet(heap, runs[r].ear, "TRIANGULATED_NODE_MASK")
    /\ RunGoes(r, [runs[r] EXCEPT !.pc = "return"])

\* earcutLinked of a run: joinNeighborsOfEar creates the new edge pair in
\* the graph _returnGraph refers to at that moment.
RunEarcutLinkedCut ==
  \E r \in Runs :
    LET e == runs[r].ear
        next == heap.faceSuccessor[e]
        G1 == JoinNeighborsOfEar(heap, e)
    IN /\ RunAtEar(r)
       /\ IsEar(heap, e)
       /\ heap.faceSuccessor[next] # heap.facePredecessor[e]
       /\ RunCreates(r, G1,
            [runs[r] EXCEPT
               !.stop = heap.faceSuccessor[next],
               !.ear = G1.faceSuccessor[G1.faceSuccessor[
                         G1.edgeMate[G1.faceSuccessor[e]]]]])

\* earcutLinked of a run: the loop left is the last triangle.
RunEarcutLinkedLastTriangle ==
  \E r \in Runs :
    LET e == runs[r].ear
        next == heap.faceSuccessor[e]
        G1 == SetMask(heap, e, {"TRIANGULATED_NODE_MASK"})
        G2 == SetMask(G1, next, {"TRIANGULATED_NODE_MASK"})
        G3 == SetMask(G2, heap.facePredecessor[e], {"TRIANGULATED_NODE_MASK"})
    IN /\ RunAtEar(r)
       /\ IsEar(heap, e)
       /\ heap.faceSuccessor[next] = heap.facePredecessor[e]
       /\ RunCreates(r, G3, [runs[r] EXCEPT !.stop = heap.faceSuccessor[next],
                                            !.ear = heap.faceSuccessor[next]])

\* earcutLinked of a run: not an ear, and the walk has not come round.
RunEarcutLinkedAdvance ==
  \E r \in Runs :
    /\ RunAtEar(r)
    /\ ~IsEar(heap, runs[r].ear)
    /\ heap.faceSuccessor[runs[r].ear] # runs[r].stop
    /\ RunGoes(r, [runs[r] EXCEPT !.ear = heap.faceSuccessor[runs[r].ear]])

\* earcutLinked of a run: no ear in a whole round of the first pass;
\* cureLocalIntersections, then earcutLinked with pass 2.
RunEarcutLinkedCure ==
  \E r \in Runs :
    LET c == CureLocalIntersections(heap, runs[r].stop, runs[r].stop, CureFuel)
    IN /\ RunAtEar(r)
       /\ ~IsEar(heap, runs[r].ear)
       /\ heap.faceSuccessor[runs[r].ear] = runs[r].stop
       /\ runs[r].pass = 0
       /\ c.finished
       /\ RunCreates(r, c.graph, RunEntersEarcutLinked(runs[r], c.node, 2))

\* earcutLinked of a run: no ear in a whole round of pass 2; splitEarcut
\* finds no diagonal and the run leaves earcutLinked.
RunEarcutLinkedSplit ==
  \E r \in Runs :
    /\ RunAtEar(r)
    /\ ~IsEar(heap, runs[r].ear)
    /\ heap.faceSuccessor[runs[r].ear] = runs[r].stop
    /\ runs[r].pass = 2
    /\ FindDiagonal(heap, runs[r].stop) = <<>>
    /\ RunGoes(r, [runs[r] EXCEPT !.pc = "return"])

\* return Triangulator._returnGraph
RunReturn ==
  \E r \in Runs :
    /\ runs[r].pc = "return"
    /\ RunGoes(r, [runs[r] EXCEPT !.pc = "done", !.result = returnGraph])

NextReentrant ==
  \/ RunNewGraph
  \/ RunCreateFaceLoop
  \/ RunEarcutLinkedExit
  \/ RunEarcutLinkedCut
  \/ RunEarcutLinkedLastTriangle
  \/ RunEarcutLinkedAdvance
  \/ RunEarcutLinkedCure
  \/ RunEarcutLinkedSplit
  \/ RunReturn

SpecReentrant == InitReentrant /\ [][NextReentrant]_vars

\* C12: when the steps of two runs interleave, every half-edge made on
\* behalf of a run is in that run's own graph, and a run that has returned
\* has returned its own graph, holding exactly the half-edges the run made
\* (the graph it returns when run alone).
C12_RunsDoNotInterfere ==
  \A r \in DOMAIN runs :
    /\ runs[r].made \subseteq allHalfEdges[r]
    /\ runs[r].pc = "done" =>
         /\ runs[r].result = r
         /\ allHalfEdges[r] = runs[r].made

(***************************************************************************)
(* Components and parity of a triangulated outer loop with a hole          *)
(***************************************************************************)
\* The parity values carried by the faces of a component.
ParityClasses(G, faces, parityMask) ==
  {IsMaskSet(G, faces[k], parityMask) : k \in 1..Len(faces)}

\* C13: for the graph built from an outer loop with one hole loop strictly
\* inside it, collectConnectedComponents with a parity mask returns exactly
\* one component, and the faces of that component carry both parity values.
C13_OneComponentTwoParities ==
  (pc = "collected" /\ OuterWithOneHole) =>
    /\ Len(components.found) = 1
    /\ ParityClasses(graph, components.found[1], components.parityMask)
         = {TRUE, FALSE}

C13_Witness ==
  /\ pc = "collected"
  /\ loops = <<Square4, Hole1>>
  /\ Len(components.found) = 1
  /\ Len(components.found[1]) >= 9
  /\ ParityClasses(graph, components.found[1], components.parityMask)
       = {TRUE, FALSE}


(***************************************************************************)
(* earcutSingleLoop on loops on both sides of the hashing threshold        *)
(***************************************************************************)
InitSingleLoop ==
  /\ graph = EmptyGraph
  /\ loops \in SingleLoopInputs \cup HashedInputs
  /\ Idle("start")
  /\ ApartIdle

NextSingleLoop ==
  \/ EarcutSingleLoop
  \/ Return
  \/ EarcutLinkedExit
  \/ EarcutLinkedCut
  \/ EarcutLinkedLastTriangle
  \/ EarcutLinkedAdvance
  \/ EarcutLinkedCure
  \/ EarcutLinkedSplit

SpecSingleLoop == InitSingleLoop /\ [][NextSingleLoop]_vars

\* A convex polygon: simple, and no corner turns against the orientation
\* (straight corners are allowed).
IsConvexPolygon(poly) ==
  /\ IsSimplePolygon(poly)
  /\ \A k \in 1..Len(poly) :
       \/ /\ Cross(Vertex(poly, k), Vertex(poly, k + 1), Vertex(poly, k + 2)) >= 0
          /\ PolygonArea2(poly) >= 0
       \/ /\ Cross(Vertex(poly, k), Vertex(poly, k + 1), Vertex(poly, k + 2)) <= 0
          /\ PolygonArea2(poly) <= 0

\* The run is on one convex loop of more points than the threshold.
HashedConvexRun ==
  /\ Len(loops) = 1
  /\ Len(loops[1]) > HashThreshold
  /\ IsConvexPolygon(loops[1])

\* earcutLinked is at the ear test of its while loop.
AtEarTest == pc = "earcutLinked" /\ ~IsMaskSet(graph, ear, "TRIANGULATED_NODE_MASK")

\* C14: on a convex polygon of more than 80 vertices the hashed ear test
\* and the brute-force ear test give the same triangles: at every ear test
\* of the run isEarHashed answers as isEar does on the same graph, so that
\* the run with either test cuts the same ears in the same order, and the
\* graph returned has the n - 2 triangles of the polygon and no other
\* non-exterior face.
C14_HashedEarTestAgrees ==
  HashedConvexRun =>
    /\ AtEarTest => (hash.size # 0
                     /\ IsEarHashed(graph, hash, ear) = IsEar(graph, ear))
    /\ pc = "done" =>
         /\ Cardinality(NonExteriorFaces(graph)) = Len(loops[1]) - 2
         /\ \A L \in NonExteriorFaces(graph) :
              /\ Cardinality(L) = 3
              /\ \A h \in L : IsMaskSet(graph, h, "TRIANGULATED_NODE_MASK")

\* The hashed run has cut ten ears or more and is at an ear next to which
\* the z list still holds a half-edge of a triangle cut off before, which
\* lies in the triangle of the ear.
C14_Witness ==
  /\ HashedConvexRun
  /\ AtEarTest
  /\ Len(graph.faceSuccessor) >= 2 * Len(loops[1]) + 2 * 10
  /\ IsEarHashed(graph, hash, ear)
  /\ \E p \in {NextZ(hash, ear), PrevZ(hash, ear)} :
       /\ p # 0
       /\ IsMaskSet(graph, p, "TRIANGULATED_NODE_MASK")
       /\ BlocksEarInTriangleOnly(graph, ear, p)


(***************************************************************************)
(* Flip cleanup                                                            *)
(***************************************************************************)
\* No interior edge has a strictly positive in-circle determinant.
NoPositiveInCircle(G) ==
  \A h \in Nodes(G) :
    IsInteriorEdge(G, h) => ComputeInCircleDeterminant(G, h) <= 0

\* The links, coordinates and vertex ids of G and H are the same.
SameTriangulation(G, H) ==
  /\ G.faceSuccessor = H.faceSuccessor
  /\ G.facePredecessor = H.facePredecessor
  /\ G.edgeMate = H.edgeMate
  /\ G.x = H.x
  /\ G.y = H.y
  /\ G.i = H.i

\* A step of cleanupTriangulation, from its call to its return.
CleanupStep ==
  /\ pc \in {"done", "cleanupTriangulation"}
  /\ pc' \in {"cleanupTriangulation", "cleaned"}

\* C15: while no interior edge of the graph has a strictly positive
\* in-circle determinant, no step of cleanupTriangulation changes a
\* face-successor, face-predecessor or mate link, a coordinate or a vertex
\* id (the premise then holds again after the step, so that the whole call
\* is a no-op on the triangulation).
C15_CleanupWithoutFlipIsNoOp ==
  [][(CleanupStep /\ NoPositiveInCircle(graph)) => SameTriangulation(graph, graph')]_vars

\* cleanupTriangulation has visited an interior edge between two triangles
\* with cocircular corners (determinant zero) and no interior edge has a
\* positive determinant.
C15_Witness ==
  /\ pc = "cleanupTriangulation"
  /\ NoPositiveInCircle(graph)
  /\ \E h \in 1..(nodeIndex - 1) :
       /\ h \in Nodes(graph)
       /\ IsInteriorEdge(graph, h)
       /\ ComputeInCircleDeterminant(graph, h) = 0
       /\ IsMaskSet(graph, h, "VISITED")


(***************************************************************************)
(* The edge pair at its creation                                           *)
(***************************************************************************)
\* The step creates the edge pair e with ids 1 and 2: A is then the
\* half-edge after the last of graph, and B the one after A.
CreatesEdgePair(e) ==
  graph' = CreateEdgeXYZXYZ(graph, e[1][1], e[1][2], 1, e[2][1], e[2][2], 2)

\* A and B of graph' are mates, A at the A end with the A id and B at the B
\* end with the B id.
MatedPairAt(e, A, B) ==
  /\ graph'.edgeMate[A] = B
  /\ graph'.edgeMate[B] = A
  /\ <<graph'.x[A], graph'.y[A]>> = e[1] /\ graph'.i[A] = 1
  /\ <<graph'.x[B], graph'.y[B]>> = e[2] /\ graph'.i[B] = 2

\* C16 as stated: createEdgePair returns the A side of a new mated pair, A
\* with xyzA and idA and B with xyzB and idB, and straight after creation
\* each of A and B is a face loop of itself.
C16_NewPairTwoSelfLoops ==
  [][\A e \in GraphEdges :
       CreatesEdgePair(e) =>
         LET A == Len(graph.faceSuccessor) + 1
             B == A + 1
         IN /\ MatedPairAt(e, A, B)
            /\ graph'.faceSuccessor[A] = A
            /\ graph'.faceSuccessor[B] = B]_vars

\* C16, amended: createEdgePair returns the A side of a new mated pair, A
\* with xyzA and idA and B with xyzB and idB; straight after creation A and
\* B together are one face loop of two half-edges (each is the face
\* successor and the face predecessor of the other), each is alone in its
\* vertex loop, and the half-edges there were before are as they were.
C16_NewPairOneTwoEdgeLoop ==
  [][\A e \in GraphEdges :
       CreatesEdgePair(e) =>
         LET A == Len(graph.faceSuccessor) + 1
             B == A + 1
         IN /\ MatedPairAt(e, A, B)
            /\ graph'.faceSuccessor[A] = B /\ graph'.faceSuccessor[B] = A
            /\ graph'.facePredecessor[A] = B /\ graph'.facePredecessor[B] = A
            /\ VertexLoop(graph', A) = {A} /\ VertexLoop(graph', B) = {B}
            /\ Len(graph'.faceSuccessor) = B
            /\ \A h \in Nodes(graph) :
                 /\ graph'.faceSuccessor[h] = graph.faceSuccessor[h]
                 /\ graph'.facePredecessor[h] = graph.facePredecessor[h]
                 /\ graph'.edgeMate[h] = graph.edgeMate[h]]_vars

\* A second edge pair has just been created next to the first: the two new
\* half-edges are a face loop of two and mates of each other.
C16_Witness ==
  /\ pc = "primitives"
  /\ Len(graph.faceSuccessor) = 4
  /\ graph.faceSuccessor[3] = 4 /\ graph.faceSuccessor[4] = 3
  /\ graph.edgeMate[3] = 4 /\ graph.edgeMate[4] = 3
  /\ graph.i[3] = 1 /\ graph.i[4] = 2


(***************************************************************************)
(* filterPoints                                                            *)
(***************************************************************************)
\* The number of points of the input loops.
RECURSIVE PointsOf(_)
PointsOf(ls) == IF ls = <<>> THEN 0 ELSE Len(Head(ls)) + PointsOf(Tail(ls))

\* The half-edges a run can have made if every removal by filterPoints and
\* every ear cut takes a vertex out of a loop: two for each input point, two
\* for the bridge of each hole, which also adds two vertices, and two for
\* each vertex taken out.
MostHalfEdges == 4 * PointsOf(loops) + 8 * (Len(loops) - 1)

\* C17: filterPoints terminates on every closed face loop after finitely
\* many removals, each of which takes a vertex out of the loop and adds one
\* edge pair: while filterPoints runs the graph has no more half-edges than
\* the vertices of the input allow.
C17_FilterPointsRemovalsBounded ==
  pc = "filterPoints" => Len(graph.faceSuccessor) <= MostHalfEdges


\* filterPoints returns the half-edge ret' at this step.
FilterPointsReturnsNode == pc = "filterPoints" /\ pc' = "return" /\ ret' # 0

\* The loop of r in G is untriangulated and filtered: no half-edge of it
\* carries TRIANGULATED_NODE_MASK, and none that is not a steiner point has
\* the xy of its successor or zero signed area with its two neighbours.
FilteredLoop(G, r) ==
  \A q \in FaceLoop(G, r) :
    /\ ~IsMaskSet(G, q, "TRIANGULATED_NODE_MASK")
    /\ ~IsRemovable(G, q)

\* C18: when filterPoints returns a half-edge, the half-edge lies on the
\* remaining untriangulated loop and no vertex of that loop that is not a
\* steiner point duplicates its successor or is collinear with its
\* neighbours.
C18_ReturnedLoopIsFiltered ==
  [][FilterPointsReturnsNode => FilteredLoop(graph', ret')]_vars

(***************************************************************************)
(* The cut of an ear                                                       *)
(***************************************************************************)
\* The graph after the cut of ear E, with predecessor P and successor S, off
\* a loop of k half-edges of the graph before: one new mated pair A, B from
\* P to S; E on a marked triangle with corners at P, E and S; the loop that
\* remains, which is the loop of A, has k - 1 half-edges, none of them E and
\* none of them marked.
EarIsCutOff(G, H, E) ==
  LET P == G.facePredecessor[E]
      S == G.faceSuccessor[E]
      k == Cardinality(FaceLoop(G, E))
      A == Len(G.faceSuccessor) + 1
      B == A + 1
      triangle == FaceSeq(H, E)
      rest == FaceLoop(H, A)
  IN /\ Len(H.faceSuccessor) = Len(G.faceSuccessor) + 2
     /\ H.edgeMate[A] = B /\ H.edgeMate[B] = A
     /\ <<H.x[A], H.y[A]>> = <<G.x[P], G.y[P]>>
     /\ <<H.x[B], H.y[B]>> = <<G.x[S], G.y[S]>>
     /\ Len(triangle) = 3
     /\ <<H.x[triangle[1]], H.y[triangle[1]]>> = <<G.x[E], G.y[E]>>
     /\ <<H.x[triangle[2]], H.y[triangle[2]]>> = <<G.x[S], G.y[S]>>
     /\ <<H.x[triangle[3]], H.y[triangle[3]]>> = <<G.x[P], G.y[P]>>
     /\ \A j \in 1..3 : IsMaskSet(H, triangle[j], "TRIANGULATED_NODE_MASK")
     /\ Cardinality(rest) = k - 1
     /\ E \notin rest
     /\ \A h \in rest : ~IsMaskSet(H, h, "TRIANGULATED_NODE_MASK")

\* C19: the cut of a confirmed ear E with predecessor P and successor S out
\* of a loop of length k > 3 adds exactly one mated edge pair joining P and
\* S; afterwards E is on a 3-cycle face with corners at the coordinates of
\* P, E and S whose half-edges are all marked TRIANGULATED, and the loop
\* that remains has length k - 1, does not hold E and has no half-edge
\* marked TRIANGULATED.
C19_CutEarEffect ==
  [][(EarcutLinkedCut /\ Cardinality(FaceLoop(graph, ear)) > 3)
       => EarIsCutOff(graph, graph', ear)]_vars

\* An ear has been cut off a loop of five or more: its triangle is marked
\* and the loop that remains, with the other new half-edge, is not.
C19_Witness ==
  /\ pc = "earcutLinked"
  /\ \E E \in Nodes(graph) :
       LET A == graph.edgeMate[graph.faceSuccessor[E]]
       IN /\ A = Len(graph.faceSuccessor) - 1
          /\ IsMaskSet(graph, E, "TRIANGULATED_NODE_MASK")
          /\ Cardinality(FaceLoop(graph, E)) = 3
          /\ Cardinality(FaceLoop(graph, A)) >= 4
          /\ \A h \in FaceLoop(graph, A) : ~IsMaskSet(graph, h, "TRIANGULATED_NODE_MASK")


(***************************************************************************)
(* earcutLinked comes to an end                                            *)
(***************************************************************************)
\* Nothing is left for earcutLinked to do in the loop of e: no half-edge of
\* it is an ear, cureLocalIntersections removes nothing and splitEarcut
\* finds no diagonal.
NothingFound(G, H, e) ==
  /\ ~IsMaskSet(G, e, "TRIANGULATED_NODE_MASK")
  /\ \A n \in FaceLoop(G, e) : ~IsEarBySize(G, H, n)
  /\ CureLocalIntersections(G, e, e, CureFuel).removed = <<>>
  /\ FindDiagonal(G, e) = <<>>

\* The steps from e round to s, a whole round when they are the same
\* half-edge; more than a round when s is not in the loop of e.
ToStop(G, e, s) ==
  LET round == FaceSeq(G, G.faceSuccessor[e])
      hits == {k \in 1..Len(round) : round[k] = s}
  IN IF hits = {} THEN Len(round) + 1
     ELSE CHOOSE k \in hits : \A m \in hits : k <= m

\* What is left for earcutLinked to do at ear e with stop s in pass p,
\* greatest part first: whether e is still to be triangulated, the length of
\* its loop, the passes to come and the steps to s.
Variant(G, e, s, p) ==
  << IF IsMaskSet(G, e, "TRIANGULATED_NODE_MASK") THEN 0 ELSE 1,
     Cardinality(FaceLoop(G, e)),
     IF p = 0 THEN 1 ELSE 0,
     ToStop(G, e, s) >>

\* a is before b in the order of the tuples, first part first.
LexLess(a, b) ==
  \E j \in 1..Len(a) : a[j] < b[j] /\ \A m \in 1..(j - 1) : a[m] = b[m]

\* earcutLinked has a step to take: the loop of cureLocalIntersections, the
\* one loop inside it, comes to its end.
EarcutLinkedGoesOn ==
  \/ IsMaskSet(graph, ear, "TRIANGULATED_NODE_MASK")
  \/ IsEarBySize(graph, hash, ear)
  \/ graph.faceSuccessor[ear] # stop
  \/ pass # 0
  \/ CureLocalIntersections(graph, stop, stop, CureFuel).finished

\* C20: earcutLinked terminates on every closed face loop: whenever it is
\* running it has a step to take, each step that stays in it makes what is
\* left to do smaller, and the only way out is its return (no error).  In a
\* loop where a whole pass finds no ear, the cure removes nothing and no
\* diagonal is found, it goes on to that return with the graph as it is, so
\* without a further triangle.
C20_EarcutLinkedTerminates ==
  /\ [](pc = "earcutLinked" => EarcutLinkedGoesOn)
  /\ [][pc = "earcutLinked" =>
          /\ pc' \in {"earcutLinked", "return"}
          /\ (pc' = "earcutLinked" => LexLess(Variant(graph', ear', stop', pass'),
                                               Variant(graph, ear, stop, pass)))
          /\ (NothingFound(graph, hash, ear) =>
                /\ graph' = graph
                /\ (pc' = "earcutLinked" => NothingFound(graph', hash', ear')))]_vars

\* earcutLinked has returned from its last pass and has left a loop of more
\* than three half-edges as it was, with nothing found in it.
C20_Witness ==
  /\ pc = "return"
  /\ pass = 2
  /\ Cardinality(FaceLoop(graph, ear)) > 3
  /\ NothingFound(graph, hash, ear)


(***************************************************************************)
(* cleanupTriangulation comes to an end                                    *)
(***************************************************************************)
\* An iteration of the for loop of cleanupTriangulation, or its return.
CleanupRuns ==
  \/ CleanupVisited
  \/ CleanupNoFlipAllowed
  \/ CleanupKeep
  \/ CleanupFlip
  \/ CleanupReturn

\* cleanupTriangulation, once called, goes on for as long as it has an
\* iteration to make: it is one synchronous loop.
SpecCleanupFair == SpecEarcut /\ WF_vars(CleanupRuns)

NoneVisited(G) == \A h \in Nodes(G) : ~IsMaskSet(G, h, "VISITED")

\* C21: cleanupTriangulation terminates on every graph that the
\* triangulation gives it: every call comes to its return, so after
\* finitely many flips and passes over allHalfEdges, and on its return no
\* half-edge has the VISITED mask.
C21_CleanupTerminates ==
  /\ (pc = "cleanupTriangulation") ~> (pc = "cleaned")
  /\ [](pc = "cleaned" => NoneVisited(graph))

\* cleanupTriangulation has returned on a graph with interior edges between
\* triangles, the edges it may flip.
C21_Witness ==
  /\ pc = "cleaned"
  /\ NoneVisited(graph)
  /\ Cardinality({h \in Nodes(graph) : IsInteriorEdge(graph, h)}) >= 4


(***************************************************************************)
(* The flip of an interior edge                                            *)
(***************************************************************************)
XYOf(G, h) == <<G.x[h], G.y[h]>>

\* The corners of the face of h, from h on.
CornersOf(G, h) == [k \in 1..Len(FaceSeq(G, h)) |-> XYOf(G, FaceSeq(G, h)[k])]

\* The triangles s and t have the same corners in the same cyclic order.
SameTriangle(s, t) ==
  /\ Len(s) = 3 /\ Len(t) = 3
  /\ \E r \in 0..2 : \A k \in 1..3 : s[k] = t[((k + r - 1) % 3) + 1]

\* Every half-edge of G has the coordinates and the vertex id of the next
\* half-edge round its vertex, and so of all of its vertex loop.
VertexLoopsAgree(G) ==
  \A h \in Nodes(G) :
    /\ XYOf(G, VertexSuccessor(G, h)) = XYOf(G, h)
    /\ G.i[VertexSuccessor(G, h)] = G.i[h]

\* node is an interior edge from V0 to V1 between the triangles
\* (V0, V1, V2) and (V1, V0, V3) of a graph whose vertex loops agree.
SharedByTwoTriangles(G, node) ==
  /\ InCircleDefined(G, node)
  /\ FaceLoop(G, node) # FaceLoop(G, G.edgeMate[node])
  /\ VertexLoopsAgree(G)

\* H is G with the edge of node flipped.
IsFlipOf(G, H, node) ==
  LET mate == G.edgeMate[node]
      V0 == XYOf(G, node)
      V1 == XYOf(G, G.faceSuccessor[node])
      V2 == XYOf(G, G.facePredecessor[node])
      V3 == XYOf(G, G.facePredecessor[mate])
  IN /\ Len(H.faceSuccessor) = Len(G.faceSuccessor)
     /\ H.edgeMate = G.edgeMate
     /\ FaceLoop(H, node) # FaceLoop(H, mate)
     /\ FaceLoop(H, node) \cup FaceLoop(H, mate)
          = FaceLoop(G, node) \cup FaceLoop(G, mate)
     /\ \/ SameTriangle(CornersOf(H, node), <<V1, V2, V3>>)
           /\ SameTriangle(CornersOf(H, mate), <<V3, V2, V0>>)
        \/ SameTriangle(CornersOf(H, mate), <<V1, V2, V3>>)
           /\ SameTriangle(CornersOf(H, node), <<V3, V2, V0>>)
     /\ {XYOf(H, node), XYOf(H, mate)} = {V2, V3}
     /\ VertexLoopsAgree(H)

\* C22: the flip that cleanupTriangulation makes at an interior edge shared
\* by the triangles (V0, V1, V2) and (V1, V0, V3) creates and destroys no
\* half-edge, keeps every mate link and leaves the six half-edges as the
\* two triangles (V1, V2, V3) and (V3, V2, V0) on either side of the
\* diagonal from V2 to V3; afterwards every half-edge has the coordinates
\* and the vertex id of the others of its vertex loop.
C22_FlipSwapsDiagonal ==
  [][(CleanupFlip /\ SharedByTwoTriangles(graph, nodeIndex))
       => IsFlipOf(graph, graph', nodeIndex)]_vars


\* cleanupTriangulation has just flipped the edge of the half-edge before
\* nodeIndex: that half-edge is VISITED between two triangles whose four
\* other half-edges are not, one of them earlier in allHalfEdges, and the
\* vertex loops agree.
C22_Witness ==
  /\ pc = "cleanupTriangulation"
  /\ nodeIndex - 1 \in Nodes(graph)
  /\ LET node == nodeIndex - 1
         mate == graph.edgeMate[node]
         four == {graph.faceSuccessor[node], graph.facePredecessor[node],
                  graph.faceSuccessor[mate], graph.facePredecessor[mate]}
     IN /\ SharedByTwoTriangles(graph, node)
        /\ IsMaskSet(graph, node, "VISITED")
        /\ Cardinality(four) = 4
        /\ \A h \in four : ~IsMaskSet(graph, h, "VISITED")
        /\ \E h \in four : h < node


(***************************************************************************)
(* cleanupTriangulation and the edges it may not flip                      *)
(***************************************************************************)
MayNotFlip(G, h) == IsMaskSet(G, h, "EXTERIOR") \/ IsMaskSet(G, h, "PRIMARY_EDGE")

\* From G to H every half-edge with EXTERIOR or PRIMARY_EDGE keeps those
\* masks, its coordinates and the coordinates it runs to, no other half-edge
\* gets them, and every EXTERIOR half-edge keeps its face successor.
FixedEdgesKept(G, H) ==
  /\ Len(H.faceSuccessor) = Len(G.faceSuccessor)
  /\ \A h \in Nodes(G) :
       /\ IsMaskSet(H, h, "EXTERIOR") = IsMaskSet(G, h, "EXTERIOR")
       /\ IsMaskSet(H, h, "PRIMARY_EDGE") = IsMaskSet(G, h, "PRIMARY_EDGE")
       /\ MayNotFlip(G, h) =>
            /\ XYOf(H, h) = XYOf(G, h)
            /\ XYOf(H, H.faceSuccessor[h]) = XYOf(G, G.faceSuccessor[h])
            /\ H.edgeMate[h] = G.edgeMate[h]
       /\ IsMaskSet(G, h, "EXTERIOR") => H.faceSuccessor[h] = G.faceSuccessor[h]

\* C23: cleanupTriangulation never flips an exterior or a boundary/primary
\* edge: at every step from its call to its return each half-edge with
\* PRIMARY_EDGE or EXTERIOR still runs between the same two coordinates and
\* each exterior face loop has the same half-edges in the same order, so
\* that both are as before the call when it returns.
C23_CleanupKeepsFixedEdges ==
  [][CleanupStep => FixedEdgesKept(graph, graph')]_vars

\* cleanupTriangulation has just flipped an edge of a triangle that has a
\* PRIMARY_EDGE half-edge: the links of that half-edge were changed.
C23_Witness ==
  /\ pc = "cleanupTriangulation"
  /\ nodeIndex - 1 \in Nodes(graph)
  /\ LET node == nodeIndex - 1
         mate == graph.edgeMate[node]
         four == {graph.faceSuccessor[node], graph.facePredecessor[node],
                  graph.faceSuccessor[mate], graph.facePredecessor[mate]}
     IN /\ IsInteriorEdge(graph, node)
        /\ IsMaskSet(graph, node, "VISITED")
        /\ \A h \in four : ~IsMaskSet(graph, h, "VISITED")
        /\ \E h \in four : h < node /\ IsMaskSet(graph, h, "PRIMARY_EDGE")
        /\ \E h \in Nodes(graph) : IsMaskSet(graph, h, "EXTERIOR")


(***************************************************************************)
(* The meaning of the in-circle determinant                                *)
(***************************************************************************)
\* Twice the signed area of the triangle a, b, c: positive when a, b, c
\* turn counter-clockwise.
Turn(a, b, c) == Cross(a, b, c)

\* The centre of the circle through a, b and c, scaled by 2 * Turn(a, b, c).
ScaledCircumcentre(a, b, c) ==
  LET a2 == a[1] * a[1] + a[2] * a[2]
      b2 == b[1] * b[1] + b[2] * b[2]
      c2 == c[1] * c[1] + c[2] * c[2]
  IN << a2 * (b[2] - c[2]) + b2 * (c[2] - a[2]) + c2 * (a[2] - b[2]),
        a2 * (c[1] - b[1]) + b2 * (a[1] - c[1]) + c2 * (b[1] - a[1]) >>

\* The square of the distance from p to the centre of the circle through
\* a, b and c, scaled by the square of 2 * Turn(a, b, c).
ScaledDistance2(a, b, c, p) ==
  LET d == 2 * Turn(a, b, c)
      u == ScaledCircumcentre(a, b, c)
  IN (d * p[1] - u[1]) * (d * p[1] - u[1]) + (d * p[2] - u[2]) * (d * p[2] - u[2])

\* p is strictly inside, or on, the circle through a, b and c.
StrictlyInCircle(a, b, c, p) == ScaledDistance2(a, b, c, p) < ScaledDistance2(a, b, c, a)

OnCircle(a, b, c, p) == ScaledDistance2(a, b, c, p) = ScaledDistance2(a, b, c, a)

IsTriangleFace(G, h) == Cardinality(FaceLoop(G, h)) = 3

\* The faces on both sides of the edge of h are triangles that turn the
\* way the triangles of the triangulation do.
TwoOrientedTriangles(G, h) ==
  /\ IsTriangleFace(G, h) /\ IsTriangleFace(G, G.edgeMate[h])
  /\ Turn(XYOf(G, h), XYOf(G, G.faceSuccessor[h]), XYOf(G, G.facePredecessor[h])) > 0
  /\ LET m == G.edgeMate[h]
     IN Turn(XYOf(G, m), XYOf(G, G.faceSuccessor[m]), XYOf(G, G.facePredecessor[m])) > 0

\* The determinant at h says whether the corner opposite to the edge of h
\* in the triangle of its mate is in the circle of the triangle of h.
DeterminantTellsInCircle(G, h) ==
  LET a == XYOf(G, h)
      b == XYOf(G, G.faceSuccessor[h])
      c == XYOf(G, G.facePredecessor[h])
      p == XYOf(G, G.facePredecessor[G.edgeMate[h]])
  IN /\ InCircleDefined(G, h)
     /\ ComputeInCircleDeterminant(G, h) > 0 <=> StrictlyInCircle(a, b, c, p)
     /\ ComputeInCircleDeterminant(G, h) = 0 <=> OnCircle(a, b, c, p)


\* C24: at every half-edge between two triangles that turn the way of the
\* triangulation, computeInCircleDeterminant is strictly positive exactly
\* when the opposite corner of the neighbouring triangle is strictly inside
\* the circle of the triangle of the half-edge and zero exactly when the
\* four points are on one circle; and it is undefined when the face on
\* either side of the edge is not a triangle.
C24_InCircleDeterminantMeaning ==
  \A h \in Nodes(graph) :
    /\ TwoOrientedTriangles(graph, h) => DeterminantTellsInCircle(graph, h)
    /\ ~(IsTriangleFace(graph, h) /\ IsTriangleFace(graph, graph.edgeMate[h]))
         => ~InCircleDefined(graph, h)


(***************************************************************************)
(* The parity flags of collectConnectedComponents                          *)
(***************************************************************************)
\* All half-edges of one face have the parity flag or none has.
FacesHaveOneParity(G, parityMask) ==
  \A h \in Nodes(G) :
    IsMaskSet(G, G.faceSuccessor[h], parityMask) = IsMaskSet(G, h, parityMask)

\* The edges with a different face on either side.
BetweenTwoFaces(G) ==
  LET face == [h \in Nodes(G) |-> FaceLoop(G, h)]
  IN {h \in Nodes(G) : G.edgeMate[h] # 0 /\ face[h] # face[G.edgeMate[h]]}

\* The parity flag changes across every edge between two faces.
ParityAlternates(G, parityMask) ==
  \A h \in BetweenTwoFaces(G) :
    IsMaskSet(G, G.edgeMate[h], parityMask) # IsMaskSet(G, h, parityMask)

\* The faces can be given two colours that change across every edge between
\* two faces: inside is the set of the faces of one colour.
TwoColourable(G) ==
  LET face == [h \in Nodes(G) |-> FaceLoop(G, h)]
      between == {h \in Nodes(G) : G.edgeMate[h] # 0 /\ face[h] # face[G.edgeMate[h]]}
  IN \E inside \in SUBSET {face[h] : h \in Nodes(G)} :
       \A h \in between : (face[G.edgeMate[h]] \in inside) # (face[h] \in inside)

AllMated(G) == \A h \in Nodes(G) : G.edgeMate[h] # 0

\* C25 as stated: after collectConnectedComponents with a parity mask on a
\* graph in which every half-edge has a mate, all half-edges of one face
\* have the same parity flag and the flag changes across every edge whose
\* two half-edges are on different faces.
C25_ParityIsTwoColouring ==
  (pc = "collected" /\ AllMated(graph)) =>
    /\ FacesHaveOneParity(graph, components.parityMask)
    /\ ParityAlternates(graph, components.parityMask)


\* C25 as the program has it: all half-edges of one face have the same
\* parity flag, and the flag changes across every edge between two faces
\* whenever the faces of the graph can be coloured that way at all.
C25_ParityIsTwoColouringIfAny ==
  (pc = "collected" /\ AllMated(graph)) =>
    /\ FacesHaveOneParity(graph, components.parityMask)
    /\ TwoColourable(graph) => ParityAlternates(graph, components.parityMask)

\* collectConnectedComponents has returned on a graph of three or more
\* faces that can be coloured, and the parity flag changes across every
\* edge between two of them.
C25_Witness ==
  /\ pc = "collected"
  /\ AllMated(graph)
  /\ Cardinality(FaceLoops(graph)) >= 3
  /\ TwoColourable(graph)
  /\ FacesHaveOneParity(graph, components.parityMask)
  /\ ParityAlternates(graph, components.parityMask)


(***************************************************************************)
(* The correction of the parity flags                                      *)
(***************************************************************************)
\* The half-edges of the faces of a component.
NodesOfFaces(G, faces) == UNION {FaceLoop(G, faces[j]) : j \in 1..Len(faces)}

\* The face of faces[j] has a negative signed area, less than that of every
\* other face of the component.
IsMostNegativeFace(G, faces, j) ==
  /\ SignedFaceArea(G, faces[j]) < 0
  /\ \A m \in 1..Len(faces) :
       m # j => SignedFaceArea(G, faces[j]) < SignedFaceArea(G, faces[m])

\* In H the most negative face of the component has the parity flag on all
\* of its half-edges, and from G to H the flag of the component is either
\* kept on every half-edge or inverted on every half-edge.
ParityCorrected(G, H, faces, parityMask) ==
  /\ \A j \in 1..Len(faces) :
       IsMostNegativeFace(H, faces, j) =>
         \A h \in FaceLoop(H, faces[j]) : IsMaskSet(H, h, parityMask)
  /\ \/ \A h \in NodesOfFaces(H, faces) :
          IsMaskSet(H, h, parityMask) = IsMaskSet(G, h, parityMask)
     \/ \A h \in NodesOfFaces(H, faces) :
          IsMaskSet(H, h, parityMask) # IsMaskSet(G, h, parityMask)

\* The graph as the floods of collectConnectedComponents leave it, before
\* correctParityInComponentArrays.
Flooded(G, parityMask) ==
  CollectFrom(ClearMaskInGraph(G, {parityMask, "VISITED"}), 1, <<>>, parityMask).graph

AllParityCorrected(G, H, found, parityMask) ==
  \A k \in 1..Len(found) :
    ParityCorrected(Flooded(G, parityMask), H, found[k], parityMask)

\* C26: after collectConnectedComponents with a parity mask, in every
\* component the face with the most negative signed area has the parity
\* flag on all of its half-edges, and the correction has either left every
\* parity flag of the component as the flood set it or inverted the flag on
\* every face of the component.
C26_MostNegativeFaceIsOutside ==
  [][(pc \in {"done", "cleaned"} /\ pc' = "collected") =>
       AllParityCorrected(graph, graph', components'.found, components'.parityMask)]_vars


\* A component of at least three faces whose most negative face the flood
\* had left without the flag, and the correction has inverted.
C26_Witness ==
  /\ pc = "collected"
  /\ \E k \in 1..Len(components.found) :
       /\ Len(components.found[k]) >= 3
       /\ \E j \in 1..Len(components.found[k]) :
            /\ IsMostNegativeFace(graph, components.found[k], j)
            /\ ~IsMaskSet(Flooded(graph, components.parityMask),
                          components.found[k][j], components.parityMask)
            /\ IsMaskSet(graph, components.found[k][j], components.parityMask)


\* C26 as stated, for every face whose negative area no other face of the
\* component undercuts: each such face has the parity flag.
C26_EveryMostNegativeFaceIsOutside ==
  pc = "collected" =>
    \A k \in 1..Len(components.found) :
      \A j \in 1..Len(components.found[k]) :
        (/\ SignedFaceArea(graph, components.found[k][j]) < 0
         /\ \A m \in 1..Len(components.found[k]) :
              SignedFaceArea(graph, components.found[k][j])
                <= SignedFaceArea(graph, components.found[k][m]))
        => IsMaskSet(graph, components.found[k][j], components.parityMask)


(***************************************************************************)
(* collectConnectedComponents on a graph built with the primitives         *)
(***************************************************************************)
\* collectConnectedComponents(graph, parityMask) on the graph the
\* primitive operations have built so far.
DoCollectOnPrimitives ==
  /\ pc = "primitives"
  /\ graph # EmptyGraph
  /\ \E parityMask \in ParityMasks :
       LET r == CollectConnectedComponents(graph, parityMask)
       IN /\ graph' = r.graph
          /\ components' = [parityMask |-> parityMask, found |-> r.components]
  /\ pc' = "collected"
  /\ UNCHANGED <<loops, returnGraph, heap, allHalfEdges, runs, hash, earVars,
                 filterVars, ret, stack, spliceVars, cleanVars>>

NextCollect ==
  \/ pc = "primitives" /\ DoCreateEdgePair
  \/ pc = "primitives" /\ DoSplitEdge
  \/ pc = "primitives" /\ DoPinch
  \/ DoCollectOnPrimitives

SpecCollect == InitGraph /\ [][NextCollect]_vars

(***************************************************************************)
(* The components as a partition of the faces                              *)
(***************************************************************************)
\* The faces across the edge-mates of the half-edges of the faces in S.
FacesAcross(G, face, S) ==
  {face[G.edgeMate[h]] : h \in {k \in UNION S : G.edgeMate[k] # 0}}

\* The faces reached from those in S by crossing edge-mates any number of
\* times.
RECURSIVE ReachedAcrossMates(_, _, _)
ReachedAcrossMates(G, face, S) ==
  IF FacesAcross(G, face, S) \subseteq S THEN S
  ELSE ReachedAcrossMates(G, face, S \cup FacesAcross(G, face, S))

\* The places <<k, j>> of the component lists whose half-edge is on face F.
PlacesOfFace(found, F) ==
  {p \in UNION {{<<k, j>> : j \in 1..Len(found[k])} : k \in 1..Len(found)} :
     found[p[1]][p[2]] \in F}

ComponentsPartitionFaces(G, face, found) ==
  /\ \A F \in {face[h] : h \in Nodes(G)} :
       Cardinality(PlacesOfFace(found, F)) = 1
  /\ \A k \in 1..Len(found) : found[k] # <<>>
  /\ \A k1, k2 \in 1..Len(found) :
       \A j1 \in 1..Len(found[k1]) : \A j2 \in 1..Len(found[k2]) :
         (k1 = k2) <=>
           (face[found[k2][j2]] \in
              ReachedAcrossMates(G, face, {face[found[k1][j1]]}))

\* C27: the lists returned by collectConnectedComponents partition the
\* faces of the graph: every face has exactly one half-edge in exactly one
\* list, no list is empty, and two faces are in the same list exactly when
\* one is reached from the other by crossing edge-mates.
C27_ComponentsPartitionFaces ==
  (pc = "collected" /\ components # <<>>) =>
    ComponentsPartitionFaces(graph, [h \in Nodes(graph) |-> FaceLoop(graph, h)],
                             components.found)

\* A graph of two components, one of them of at least two faces.
C27_Witness ==
  /\ pc = "collected"
  /\ Len(components.found) >= 2
  /\ \E k \in 1..Len(components.found) : Len(components.found[k]) >= 2
  /\ ComponentsPartitionFaces(graph, [h \in Nodes(graph) |-> FaceLoop(graph, h)],
                              components.found)


(***************************************************************************)
(* The masks and the returned side of a new face loop                      *)
(***************************************************************************)
\* node is on the face of positive area, EXTERIOR is on exactly the
\* half-edges of the face across node's edge, and every half-edge of the
\* graph has BOUNDARY and PRIMARY_EDGE.
PositiveSideReturned(G, node) ==
  /\ SignedFaceArea(G, node) > 0
  /\ {h \in Nodes(G) : IsMaskSet(G, h, "EXTERIOR")} = FaceLoop(G, G.edgeMate[node])
  /\ FaceLoop(G, G.edgeMate[node]) # FaceLoop(G, node)
  /\ \A h \in Nodes(G) :
       IsMaskSet(G, h, "BOUNDARY") /\ IsMaskSet(G, h, "PRIMARY_EDGE")

\* The step from the call of a triangulation of one loop to the entry of
\* earcutLinked: createFaceLoopFromXAndYArray(data, true, true) has built
\* the graph and returned the start node of earcutLinked.
FaceLoopCreated == pc = "start" /\ pc' = "earcutLinked"

\* C28: for a loop given clockwise or counter-clockwise (of signed area
\* other than zero), createFaceLoopFromXAndYArray(data, true, true) returns
\* a half-edge of the face of positive signed area, sets EXTERIOR on exactly
\* the half-edges of the opposite face, and sets BOUNDARY and PRIMARY_EDGE on
\* every half-edge it creates.
C28_PositiveLoopAndMasks ==
  [][(FaceLoopCreated /\ PolygonArea2(loops[1]) # 0) =>
       PositiveSideReturned(graph', ear')]_vars


\* earcutLinked is entered on the loop built from a clockwise loop of four
\* or more points: the node returned is the mate of the last half-edge made.
C28_Witness ==
  /\ pc = "earcutLinked" /\ pass = 0 /\ ear = stop
  /\ Len(loops) = 1 /\ Len(loops[1]) >= 4
  /\ Len(graph.faceSuccessor) = 2 * Len(loops[1])
  /\ PolygonArea2(loops[1]) < 0
  /\ PositiveSideReturned(graph, ear)


(***************************************************************************)
(* splitPolygon applied to any two half-edges of a graph of face loops     *)
(***************************************************************************)
\* Calls of splitPolygon allowed on one graph.
MaxSplits == 1

\* The loops the graphs are built from: a triangle alone, and a triangle
\* with a triangular hole.
SplitInputs ==
  {<<<<<<0, 0>>, <<4, 0>>, <<0, 4>>>>>>,
   <<<<<<0, 0>>, <<4, 0>>, <<0, 4>>>>, <<<<1, 1>>, <<1, 2>>, <<2, 1>>>>>>}

\* The graph with the face loop of the outer loop and those of the holes,
\* as earcutOuterAndInnerLoops has it before the first hole is spliced.
GraphOfLoops(ls) ==
  ConstructHoles(CreateFaceLoopFromXAndYArray(EmptyGraph, ls[1], TRUE, TRUE).graph,
                 Tail(ls), <<>>).graph

PointsIn(ls) == IF ls = <<>> THEN 0 ELSE Len(ls[1]) + (IF Len(ls) > 1 THEN Len(ls[2]) ELSE 0)

InitSplitPolygon ==
  /\ loops \in SplitInputs
  /\ graph = GraphOfLoops(loops)
  /\ Idle("splitPolygon")
  /\ ApartIdle

\* splitPolygon(a, b) for any two half-edges of the graph; as in
\* eliminateHole, a is outerNode and b is the hole at the head of the queue.
DoSplitPolygon ==
  /\ pc = "splitPolygon"
  /\ Len(graph.faceSuccessor) < 2 * PointsIn(loops) + 2 * MaxSplits
  /\ \E a \in Nodes(graph), b \in Nodes(graph) :
       /\ graph' = SplitPolygon(graph, a, b).graph
       /\ outerNode' = a
       /\ queue' = <<b>>
  /\ UNCHANGED <<loops, apart, hash, earVars, filterVars, ret, stack, cleanVars, pc>>

SpecSplitPolygon == InitSplitPolygon /\ [][DoSplitPolygon]_vars

\* The half-edges splitPolygon has made.
NewIn(G, H) == Nodes(H) \ Nodes(G)

\* a and b were on two face loops of G: in H one face loop holds both of
\* them, every half-edge of the two loops and the new half-edges.
LoopsMerged(G, H, a, b) ==
  /\ FaceLoop(H, a) = FaceLoop(G, a) \cup FaceLoop(G, b) \cup NewIn(G, H)
  /\ a \in FaceLoop(H, a) /\ b \in FaceLoop(H, a)

\* a and b were on one face loop of G: in H its half-edges and the new ones
\* make exactly two face loops.
LoopSplit(G, H, a) ==
  /\ Cardinality({FaceLoop(H, h) : h \in FaceLoop(G, a) \cup NewIn(G, H)}) = 2
  /\ UNION {FaceLoop(H, h) : h \in FaceLoop(G, a) \cup NewIn(G, H)}
       = FaceLoop(G, a) \cup NewIn(G, H)

SplitPolygonEffect(G, H, a, b) ==
  /\ Cardinality(NewIn(G, H)) = 2
  /\ IF FaceLoop(G, a) # FaceLoop(G, b)
     THEN LoopsMerged(G, H, a, b)
     ELSE LoopSplit(G, H, a)

\* C29: splitPolygon(a, b) with a and b on two face loops (the outer loop
\* and a hole) leaves one face loop that holds every half-edge of both
\* loops and the two new bridge half-edges, a and b among them; with a and
\* b on the same face loop it leaves exactly two face loops in its place.
C29_SplitPolygonMergesOrSplits ==
  [][DoSplitPolygon => SplitPolygonEffect(graph, graph', outerNode', Head(queue'))]_vars


\* The hole has been spliced into a loop of the triangle: one face loop of
\* eight half-edges holds a, b and the two bridge half-edges.
C29_Witness ==
  /\ pc = "splitPolygon"
  /\ Len(loops) = 2
  /\ queue # <<>>
  /\ Len(graph.faceSuccessor) = 2 * PointsIn(loops) + 2
  /\ Cardinality(FaceLoop(graph, outerNode)) = 8
  /\ {Head(queue), Len(graph.faceSuccessor), Len(graph.faceSuccessor) - 1}
       \subseteq FaceLoop(graph, outerNode)


(***************************************************************************)
(* The z list during hashed ear clipping                                   *)
(***************************************************************************)
\* n has a zOrder and is linked in the z list: its neighbours in the list,
\* if any, point back to it.
InZList(H, n) ==
  /\ n \in DOMAIN H.zOrder
  /\ PrevZ(H, n) # 0 => NextZ(H, PrevZ(H, n)) = n
  /\ NextZ(H, n) # 0 => PrevZ(H, NextZ(H, n)) = n

\* The z list holds exactly the half-edges of the loop of e, in
\* non-decreasing zOrder.
ZListIsLoop(G, H, e) ==
  /\ {n \in Nodes(G) : InZList(H, n)} = FaceLoop(G, e)
  /\ \A n \in FaceLoop(G, e) :
       NextZ(H, n) # 0 => H.zOrder[n] <= H.zOrder[NextZ(H, n)]

\* The two ear tests agree on every half-edge of the loop of e.
EarTestsAgreeOn(G, H, e) ==
  \A v \in FaceLoop(G, e) : IsEarHashed(G, H, v) = IsEar(G, v)

\* At an ear test of a hashed run: after indexCurve and after every cut.
AtHashedEarTest == AtEarTest /\ hash.size # 0 /\ Len(loops) = 1

\* C30: during hashed ear clipping, after indexCurve and after every ear
\* cut, the z list holds exactly the half-edges of the loop still to be
\* triangulated, in non-decreasing zOrder, and for a simple polygon
\* isEarHashed and isEar give the same answer on every half-edge of that
\* loop.
C30_ZListIsRemainingLoop ==
  AtHashedEarTest =>
    /\ ZListIsLoop(graph, hash, ear)
    /\ EarTestsAgreeOn(graph, hash, ear) \/ ~IsSimplePolygon(loops[1])

=============================================================================
